---- MODULE Spec2Model ----
(***************************************************************************)
(* Device polling and discovery engine of snowden-x/sndvt-back.            *)
(*                                                                         *)
(* Each subsystem has its own specification over one set of variables     *)
(* (the variables of the other subsystems stay at rest):                   *)
(*   RetrySpec  BaseMonitor._retry_operation                               *)
(*   ScanSpec   AdvancedDiscoveryService (scan jobs, results directory)    *)
(*   ScanFairSpec  ScanSpec under a fair event loop                        *)
(*   AddSpec    AdvancedDiscoveryService.auto_add_devices_from_scan        *)
(*   ClassifySpec  the device type / protocol classifiers                  *)
(*   CoordSpec  DeviceMonitoringService single-device queries + cache      *)
(*   BulkSpec   DeviceMonitoringService.get_multiple_device_status         *)
(*   BulkFairSpec  BulkSpec under a fair event loop                        *)
(*   ReloadSpec  single-device queries with reload_devices, clear_cache    *)
(*   SweepSpec   NetworkDiscovery.ping_sweep                               *)
(*   ConcurrentSpec  two get_all_device_status invocations and a single    *)
(*               get_device_status running together                        *)
(***************************************************************************)
EXTENDS Integers, Sequences, FiniteSets, TLC

(***************************************************************************)
(* Bounds of the model.                                                    *)
(***************************************************************************)
MaxRetry == 4
MaxHosts == 1
MaxRestarts == 1
MaxCalls == 2
MaxTime == 2
MaxTtl == 1
MaxFails == 1
MaxConcurrent == 2
MaxIds == 3
MaxDevices == 2
MaxAdds == 1
MaxLimit == 2
MaxReloads == 1
MaxSweepHosts == 3

\* DeviceConfig.retry_count: int = 3
DefaultRetryCount == 3

(* Python's None in string-typed and in integer-typed fields. *)
None == "None"
NoneInt == -1

(***************************************************************************)
(* BaseMonitor._retry_operation                                            *)
(***************************************************************************)
VARIABLES
    retry_count,     \* self.retry_count of the monitor
    attempt,         \* loop variable of "for attempt in range(retry_count)"
    retry_pc,        \* "calling" | "sleeping" | "returned" | "raised"
    last_exception,  \* last_exception local
    retry_result,    \* value returned to the caller, None if none
    retry_raised,    \* error raised to the caller, None if none
    op_log,          \* one entry per call of the operation, in order
    sleeps,          \* the delays passed to asyncio.sleep, in order
    elapsed          \* seconds spent asleep so far

retryVars == <<retry_count, attempt, retry_pc, last_exception, retry_result,
               retry_raised, op_log, sleeps, elapsed>>

(***************************************************************************)
(* AdvancedDiscoveryService                                                *)
(***************************************************************************)
VARIABLES
    active_scans,   \* self.active_scans: scan_id -> ScanResult
    disk,           \* results_dir: scan_id -> contents of <scan_id>.json
    tasks,          \* position of each _execute_scan task
    task_save,      \* save_results argument of each task
    scan_clock,     \* datetime.now(), advanced at every stamp
    created,        \* scan ids handed out by start_discovery_scan
    restarts,       \* number of process restarts so far
    persisted_at_restart, \* ids with a record on disk at the last restart
    nmap_outcome,   \* per task: "none", or the tool ran "ok" or "failed"
    alive_count,    \* per task: hosts of its network that answer
    sweep_ran,      \* per task: its built-in ping_sweep has returned
    scan_budget,    \* start_discovery_scan calls still to come in this run
    detached,       \* ScanResult objects removed from active_scans that
                    \* their running task still refers to
    deleted         \* scan id -> how delete_scan_result ended for it

scanGhost == <<nmap_outcome, alive_count, sweep_ran>>

scanVars == <<active_scans, disk, tasks, task_save, scan_clock, created,
              restarts, persisted_at_restart, scanGhost, scan_budget,
              detached, deleted>>

(***************************************************************************)
(* AdvancedDiscoveryService.auto_add_devices_from_scan and the devices     *)
(* table of DatabaseManager                                                *)
(***************************************************************************)
VARIABLES
    add_pc,          \* "idle" | "adding" | "returned"
    add_scan_id,     \* its scan_id argument
    add_devices,     \* scan_data['discovered_devices'] it iterates over
    add_todo,        \* the part of that list the for loop has not reached
    added_devices,   \* added_devices local
    failed_devices,  \* failed_devices local
    add_result,      \* the dictionary it returned
    registry,        \* host column of the devices table (UNIQUE)
    add_calls        \* calls of auto_add_devices_from_scan so far

addVars == <<add_pc, add_scan_id, add_devices, add_todo, added_devices,
             failed_devices, add_result, registry, add_calls>>

(***************************************************************************)
(* The classifiers of discovered hosts                                     *)
(***************************************************************************)
VARIABLES
    cls_ports,   \* the open ports found on a host
    cls_desc,    \* system_info.get('system_description') of the host
    cls_result   \* what the classifiers returned for it

clsVars == <<cls_ports, cls_desc, cls_result>>

(***************************************************************************)
(* NetworkDiscovery.ping_sweep                                             *)
(***************************************************************************)
VARIABLES
    sweep_pc,      \* "idle" | "pinging" | "returned" | "raised"
    sweep_network, \* its network argument
    sweep_hosts,   \* hosts: the addresses it pings, in order
    ping,          \* per position of hosts: the ping_with_semaphore task
    sweep_sem,     \* _value of its asyncio.Semaphore
    alive_hosts,   \* the list it returns
    probes         \* the addresses _ping_host was run for, one entry per run

sweepVars == <<sweep_pc, sweep_network, sweep_hosts, ping, sweep_sem,
               alive_hosts, probes>>

auxVars == <<addVars, clsVars, sweepVars>>

(***************************************************************************)
(* DeviceMonitoringService                                                 *)
(***************************************************************************)
VARIABLES
    monitors,       \* keys of self.monitors
    cache,          \* self.cache: device_id -> cache_key -> entry
    cache_ttl,      \* self.cache_ttl
    max_concurrent, \* self.max_concurrent
    now,            \* time.time()
    fails_left,     \* per device: how many more monitor attempts fail
    calls,          \* the coordinator calls, one record per call
    bulk_pc,        \* get_multiple_device_status: "idle"|"gathering"|"done"
    bulk_ids,       \* its device_ids argument
    sem,            \* _value of the asyncio.Semaphore of each invocation
    bulk_result,    \* the status_dict it returns
    config_file,    \* the device records of devices.yaml, as they parse
    dm_devices,     \* self.device_manager.devices
    mon_obj,        \* self.monitors: device_id -> monitor object
    reloads,        \* calls of reload_devices so far
    bulk2_pc,       \* a second, concurrent get_multiple_device_status
    bulk2_result    \* the status_dict it returns

coordVars == <<monitors, cache, cache_ttl, max_concurrent, now, fails_left,
               calls, bulk_pc, bulk_ids, sem, bulk_result, config_file,
               dm_devices, mon_obj, reloads, bulk2_pc, bulk2_result>>

vars == <<retryVars, scanVars, coordVars, auxVars>>

(***************************************************************************)
(* A subsystem at rest, while another one's specification runs.            *)
(***************************************************************************)
RetryAtRest ==
    /\ attempt = 0
    /\ retry_pc = "returned"
    /\ last_exception = None
    /\ retry_result = None
    /\ retry_raised = None
    /\ op_log = <<>>
    /\ sleeps = <<>>
    /\ elapsed = 0

RetryIdle == retry_count = 1 /\ RetryAtRest

ScanIdle ==
    /\ active_scans = <<>>
    /\ disk = <<>>
    /\ tasks = <<>>
    /\ task_save = <<>>
    /\ scan_clock = 0
    /\ created = {}
    /\ restarts = 0
    /\ persisted_at_restart = {}
    /\ nmap_outcome = <<>>
    /\ alive_count = <<>>
    /\ sweep_ran = <<>>
    /\ scan_budget = 0
    /\ detached = <<>>
    /\ deleted = <<>>

AddIdle ==
    /\ add_pc = "idle"
    /\ add_scan_id = None
    /\ add_devices = <<>>
    /\ add_todo = <<>>
    /\ added_devices = <<>>
    /\ failed_devices = <<>>
    /\ add_result = [cls |-> "NoneType"]
    /\ registry = {}
    /\ add_calls = 0

ClassifyIdle ==
    /\ cls_ports = {}
    /\ cls_desc = [cls |-> "NoneType"]
    /\ cls_result = [cls |-> "NoneType"]

SweepIdle ==
    /\ sweep_pc = "idle"
    /\ sweep_network = "None"
    /\ sweep_hosts = <<>>
    /\ ping = <<>>
    /\ sweep_sem = 0
    /\ alive_hosts = <<>>
    /\ probes = <<>>

AuxIdle == AddIdle /\ ClassifyIdle /\ SweepIdle

CoordIdle ==
    /\ monitors = {}
    /\ cache = <<>>
    /\ cache_ttl = 1
    /\ max_concurrent = 1
    /\ now = 0
    /\ fails_left = <<>>
    /\ calls = <<>>
    /\ bulk_pc = "idle"
    /\ bulk_ids = <<>>
    /\ sem = <<>>
    /\ bulk_result = <<>>
    /\ config_file = <<>>
    /\ dm_devices = <<>>
    /\ mon_obj = <<>>
    /\ reloads = 0
    /\ bulk2_pc = "idle"
    /\ bulk2_result = <<>>

OpValues == {"v1", "v2"}
OpErrors == {"e1", "e2"}

RECURSIVE Pow2(_)
Pow2(k) == IF k <= 0 THEN 1 ELSE 2 * Pow2(k - 1)

RECURSIVE SumSeq(_)
SumSeq(s) == IF s = <<>> THEN 0 ELSE Head(s) + SumSeq(Tail(s))

BackoffDelayLate(a) == Pow2(a + 1)
\* delay = 2 ** attempt
BackoffDelay(a) == Pow2(a)

ShouldSleepAlways(a, rc) == a < rc
\* if attempt < self.retry_count - 1
ShouldSleep(a, rc) == a < rc - 1

InRangeOneMore(a, rc) == a < rc + 1
\* for attempt in range(self.retry_count)
InRange(a, rc) == a < rc

RetryRest == UNCHANGED <<scanVars, coordVars, auxVars>>

RetryInit ==
    /\ retry_count \in 1..MaxRetry
    /\ attempt = 0
    /\ retry_pc = "calling"
    /\ last_exception = None
    /\ retry_result = None
    /\ retry_raised = None
    /\ op_log = <<>>
    /\ sleeps = <<>>
    /\ elapsed = 0
    /\ ScanIdle
    /\ AuxIdle
    /\ CoordIdle

\* return await operation(*args, **kwargs)
OperationReturns ==
    \E v \in OpValues :
        /\ retry_pc = "calling"
        /\ op_log' = Append(op_log, [ok |-> TRUE, val |-> v])
        /\ retry_result' = v
        /\ retry_pc' = "returned"
        /\ UNCHANGED <<retry_count, attempt, last_exception, retry_raised,
                       sleeps, elapsed>>
        /\ RetryRest

\* except Exception as e: ... up to the sleep, or to the raise after the loop
OperationRaises ==
    \E e \in OpErrors :
        /\ retry_pc = "calling"
        /\ op_log' = Append(op_log, [ok |-> FALSE, val |-> e])
        /\ last_exception' = e
        /\ IF ShouldSleep(attempt, retry_count)
           THEN /\ sleeps' = Append(sleeps, BackoffDelay(attempt))
                /\ retry_pc' = "sleeping"
                /\ UNCHANGED <<attempt, retry_raised>>
           ELSE IF InRange(attempt + 1, retry_count)
           THEN /\ attempt' = attempt + 1
                /\ UNCHANGED <<sleeps, retry_pc, retry_raised>>
           ELSE /\ retry_raised' = e
                /\ retry_pc' = "raised"
                /\ UNCHANGED <<attempt, sleeps>>
        /\ UNCHANGED <<retry_count, retry_result, elapsed>>
        /\ RetryRest

\* await asyncio.sleep(delay) returns after at least delay seconds
SleepReturns ==
    \E extra \in 0..1 :
        /\ retry_pc = "sleeping"
        /\ elapsed' = elapsed + sleeps[Len(sleeps)] + extra
        /\ IF InRange(attempt + 1, retry_count)
           THEN /\ attempt' = attempt + 1
                /\ retry_pc' = "calling"
                /\ UNCHANGED retry_raised
           ELSE /\ retry_raised' = last_exception
                /\ retry_pc' = "raised"
                /\ UNCHANGED attempt
        /\ UNCHANGED <<retry_count, last_exception, retry_result, op_log,
                       sleeps>>
        /\ RetryRest

RetryNext == OperationReturns \/ OperationRaises \/ SleepReturns

RetrySpec == RetryInit /\ [][RetryNext]_vars

AllFailed(n) == \A i \in 1..n : ~op_log[i].ok

(* C6: for retry_count >= 1, an operation that fails its first
   retry_count - 1 attempts and succeeds on the last returns that success
   after exactly retry_count attempts; the sleep after failed attempt k
   (k = 0 .. retry_count-2) is 2^k seconds, so the time asleep is at least
   2^(retry_count-1) - 1; no attempt follows a success and no sleep follows
   the final attempt. *)
C6_BackoffSchedule ==
    /\ \A i \in 1..Len(op_log) : i < Len(op_log) => ~op_log[i].ok
    /\ Len(sleeps) <= Len(op_log)
    /\ retry_pc \in {"returned", "raised"} => Len(sleeps) = Len(op_log) - 1
    /\ \A k \in 1..Len(sleeps) : sleeps[k] = Pow2(k - 1)
    /\ (retry_pc = "returned" /\ Len(op_log) = retry_count)
          => /\ retry_result = op_log[retry_count].val
             /\ retry_raised = None
             /\ elapsed >= Pow2(retry_count - 1) - 1
             /\ elapsed >= SumSeq(sleeps)
    /\ (Len(op_log) = retry_count /\ op_log[retry_count].ok)
          => retry_pc = "returned"

C6_Witness ==
    /\ retry_count = MaxRetry
    /\ retry_pc = "returned"
    /\ Len(op_log) = retry_count
    /\ AllFailed(retry_count - 1)
    /\ Len(sleeps) = retry_count - 1

(* C7: when every attempt fails, the wrapper makes exactly retry_count
   attempts and then raises the error the operation raised on its last
   attempt; it returns no value and never makes more than retry_count
   attempts. *)
C7_SurfacesError ==
    /\ Len(op_log) <= retry_count
    /\ retry_pc = "raised"
          => /\ Len(op_log) = retry_count
             /\ AllFailed(retry_count)
             /\ retry_raised = op_log[retry_count].val
             /\ retry_raised \in OpErrors
             /\ retry_result = None
    /\ (Len(op_log) = retry_count /\ AllFailed(retry_count))
          => retry_pc = "raised"
    /\ retry_pc = "returned" => retry_raised = None

C7_Witness ==
    /\ retry_count = MaxRetry
    /\ retry_pc = "raised"
    /\ op_log[1].val # op_log[retry_count].val

(***************************************************************************)
(* AdvancedDiscoveryService: scan jobs and the results directory           *)
(***************************************************************************)
ScanIds == {"s1", "s2"}      \* ids uuid4 can hand out in this model
PreIds == {"p1"}             \* ids of files found in results_dir at startup
AllScanIds == ScanIds \cup PreIds
ScanTypes == {"ping", "port", "full"}
ScanErrors == {"scan error"}
\* ping_sweep: raise ValueError(f"Invalid network format: {e}")
InvalidNetworkFormat == "Invalid network format"

\* the network arguments of this model: a /30 and a prefix length no IPv4
\* network has
Networks == {"10.0.0.0/30", "10.0.0.0/33"}
\* ipaddress.ip_network(network, strict=False) returns instead of raising
ValidCidr(net) == net = "10.0.0.0/30"
\* len(list(net.hosts())): a /30 has the two addresses between its network
\* and its broadcast address
UsableHosts(net) == IF net = "10.0.0.0/30" THEN 2 ELSE 0

Min(a, b) == IF a < b THEN a ELSE b

\* how subprocess.run(['nmap', ...]) and the parsing of its output can end
NmapOutcomes == {"ok", "not_found", "nonzero", "timeout", "unparseable"}
\* _run_nmap_ping_scan / _run_nmap_scan: the number of hosts returned; every
\* failure of the tool is caught and an empty list is returned
NmapHosts(outcome, alive) == IF outcome = "ok" THEN alive ELSE 0
\* the two ways the caller of the tool can tell its outcomes apart
NmapVerdict(outcome) == IF outcome = "ok" THEN "ok" ELSE "failed"
Absent == [cls |-> "NoneType"]
EmptyTable == [id \in {} |-> Absent]

RemoveKey(f, k) == [x \in DOMAIN f \ {k} |-> f[x]]

\* ScanResult.__init__
NewScanResult(id, net, type, t) ==
    [cls |-> "ScanResult", scan_id |-> id, network |-> net,
     scan_type |-> type,
     status |-> "running", started_at |-> t, completed_at |-> NoneInt,
     total_hosts |-> 0, scanned_hosts |-> 0, discovered_devices |-> <<>>,
     error_message |-> None]

\* the device dictionaries built by _process_*_results, one per alive host
ProcessResults(n) == [i \in 1..n |-> [ip |-> i, device_type |-> "unknown"]]

\* json.dump(scan_result.__dict__, default=str) followed by json.load:
\* strings, integers, None and lists of dictionaries come back unchanged
JsonRoundTrip(rec) ==
    [cls |-> rec.cls, scan_id |-> rec.scan_id, network |-> rec.network,
     scan_type |-> rec.scan_type,
     status |-> rec.status, started_at |-> rec.started_at,
     completed_at |-> rec.completed_at, total_hosts |-> rec.total_hosts,
     scanned_hosts |-> rec.scanned_hosts,
     discovered_devices |-> rec.discovered_devices,
     error_message |-> rec.error_message]

SaveScanResultEarly(files, rec, ok) ==
    IF ok THEN (rec.scan_id :> JsonRoundTrip([rec EXCEPT !.completed_at = NoneInt]))
               @@ files
          ELSE files
\* _save_scan_result: writes <scan_id>.json, an I/O error is printed and
\* swallowed
SaveScanResult(files, rec, ok) ==
    IF ok THEN (rec.scan_id :> JsonRoundTrip(rec)) @@ files ELSE files

\* _load_scan_history: every file is read into a local ScanResult, a
\* 'running' one is changed to 'failed' on that local object, and the object
\* is dropped; nothing is registered and nothing is written back
LoadScanHistory(files) == EmptyTable

\* get_scan_status
GetScanStatus(id) ==
    IF id \in DOMAIN active_scans THEN active_scans[id]
    ELSE IF id \in DOMAIN disk THEN disk[id]
    ELSE Absent

\* the 'status' of the entry get_scan_history builds for a scan id
HistoryStatus(id) ==
    IF id \in DOMAIN active_scans THEN active_scans[id].status
    ELSE IF id \in DOMAIN disk THEN disk[id].status
    ELSE None

PreRecord(id, st) ==
    [cls |-> "ScanResult", scan_id |-> id, network |-> "10.0.0.0/30",
     scan_type |-> "ping", status |-> st, started_at |-> 0,
     completed_at |-> IF st = "running" THEN NoneInt ELSE 0,
     total_hosts |-> 0, scanned_hosts |-> 0, discovered_devices |-> <<>>,
     error_message |-> IF st = "failed" THEN "scan error" ELSE None]

ScanRest == UNCHANGED <<retryVars, coordVars, auxVars>>

\* AdvancedDiscoveryService.__init__ over a results directory that is empty
\* or holds one record left by an earlier process
ScanInit ==
    /\ active_scans = EmptyTable
    /\ \/ disk = EmptyTable
       \/ \E st \in {"running", "completed", "failed"} :
             disk = [id \in PreIds |-> PreRecord(id, st)]
    /\ tasks = [id \in ScanIds |-> "none"]
    /\ task_save = [id \in ScanIds |-> FALSE]
    /\ scan_clock = 1
    /\ created = {}
    /\ restarts = 0
    /\ persisted_at_restart = DOMAIN disk
    /\ nmap_outcome = [id \in ScanIds |-> "none"]
    /\ alive_count = [id \in ScanIds |-> 0]
    /\ sweep_ran = [id \in ScanIds |-> FALSE]
    /\ scan_budget = Cardinality(ScanIds)
    /\ detached = EmptyTable
    /\ deleted = <<>>
    /\ AuxIdle
    /\ RetryIdle
    /\ CoordIdle

\* start_discovery_scan
StartScan ==
    \E id \in ScanIds \ created, net \in Networks, type \in ScanTypes,
       save \in BOOLEAN :
        /\ scan_budget > 0
        /\ scan_budget' = scan_budget - 1
        /\ active_scans' = (id :> NewScanResult(id, net, type, scan_clock))
                           @@ active_scans
        /\ tasks' = [tasks EXCEPT ![id] = "scanning"]
        /\ task_save' = [task_save EXCEPT ![id] = save]
        /\ created' = created \cup {id}
        /\ scan_clock' = scan_clock + 1
        /\ UNCHANGED <<disk, restarts, persisted_at_restart, scanGhost,
                       detached, deleted>>
        /\ ScanRest

CompletedUnstamped(rec, n, t) ==
    [rec EXCEPT !.status = "completed", !.total_hosts = n,
                !.scanned_hosts = n, !.discovered_devices = ProcessResults(n)]
\* the tail of the try block: status, completed_at, save
Completed(rec, n, t) ==
    [rec EXCEPT !.status = "completed", !.completed_at = t,
                !.total_hosts = n, !.scanned_hosts = n,
                !.discovered_devices = ProcessResults(n)]

FailedNoMessage(rec, e, t) ==
    [rec EXCEPT !.status = "failed", !.completed_at = t]
\* the head of the except block: status, error_message, completed_at
Failed(rec, e, t) ==
    [rec EXCEPT !.status = "failed", !.error_message = e,
                !.completed_at = t]

\* the scan_result argument of the _execute_scan task of id: the object
\* registered in active_scans, or the one delete_scan_result took out of it
ScanObject(id) ==
    IF id \in DOMAIN active_scans THEN active_scans[id] ELSE detached[id]

\* the task writes through its own reference to the ScanResult; the object
\* is the one in active_scans as long as the id is registered there
FinishScan(id, rec, ok, pc) ==
    /\ active_scans' = IF id \in DOMAIN active_scans
                       THEN [active_scans EXCEPT ![id] = rec]
                       ELSE active_scans
    /\ detached' = RemoveKey(detached, id)
    /\ disk' = IF task_save[id] THEN SaveScanResult(disk, rec, ok) ELSE disk
    /\ tasks' = [tasks EXCEPT ![id] = pc]
    /\ scan_clock' = scan_clock + 1
    /\ UNCHANGED <<task_save, created, restarts, persisted_at_restart,
                   scan_budget, deleted>>
    /\ ScanRest

\* the hosts of a network that can answer: at most its usable addresses
AliveCounts(net) == 0..Min(MaxHosts, UsableHosts(net))

\* _execute_scan, scan types "ping" and "full": _run_nmap_ping_scan, or
\* discover_network around _run_nmap_scan, returns the hosts the tool
\* reported, none when the tool failed
ScanCompletes ==
    \E id \in ScanIds, out \in NmapOutcomes, ok \in BOOLEAN :
        /\ tasks[id] = "scanning"
        /\ \E alive \in AliveCounts(ScanObject(id).network) :
            /\ ScanObject(id).scan_type \in {"ping", "full"}
            /\ nmap_outcome' = [nmap_outcome EXCEPT
                                  ![id] = NmapVerdict(out)]
            /\ alive_count' = [alive_count EXCEPT ![id] = alive]
            /\ UNCHANGED sweep_ran
            /\ FinishScan(id, Completed(ScanObject(id),
                                        NmapHosts(out, alive), scan_clock),
                          ok, "done")

\* _execute_scan, scan type "port": ping_sweep returns
PingSweepReturns ==
    \E id \in ScanIds, ok \in BOOLEAN :
      /\ tasks[id] = "scanning"
      /\ \E n \in AliveCounts(ScanObject(id).network) :
        /\ ScanObject(id).scan_type = "port"
        /\ ValidCidr(ScanObject(id).network)
        /\ alive_count' = [alive_count EXCEPT ![id] = n]
        /\ sweep_ran' = [sweep_ran EXCEPT ![id] = TRUE]
        /\ UNCHANGED nmap_outcome
        /\ IF n = 0
           THEN FinishScan(id, [Completed(ScanObject(id), 0, scan_clock)
                                  EXCEPT !.discovered_devices = <<>>],
                           ok, "done")
           ELSE /\ active_scans' = IF id \in DOMAIN active_scans
                                   THEN [active_scans EXCEPT
                                           ![id].total_hosts = n,
                                           ![id].scanned_hosts = n]
                                   ELSE active_scans
                /\ detached' = IF id \in DOMAIN detached
                               THEN [detached EXCEPT
                                       ![id].total_hosts = n,
                                       ![id].scanned_hosts = n]
                               ELSE detached
                /\ tasks' = [tasks EXCEPT ![id] = "port_scan"]
                /\ UNCHANGED <<disk, task_save, scan_clock, created,
                               restarts, persisted_at_restart, scan_budget,
                               deleted>>
                /\ ScanRest

\* _execute_scan, scan type "port": port_scan returns
PortScanReturns ==
    \E id \in ScanIds, ok \in BOOLEAN :
        /\ tasks[id] = "port_scan"
        /\ UNCHANGED scanGhost
        /\ FinishScan(id, Completed(ScanObject(id),
                                    ScanObject(id).total_hosts, scan_clock),
                      ok, "done")

\* _execute_scan: the scan raises; the task then sleeps for the grace period
ScanFails ==
    \E id \in ScanIds, e \in ScanErrors \cup {InvalidNetworkFormat},
       ok \in BOOLEAN :
        /\ tasks[id] \in {"scanning", "port_scan"}
        /\ e = InvalidNetworkFormat
              <=> /\ ScanObject(id).scan_type = "port"
                  /\ ~ValidCidr(ScanObject(id).network)
        /\ UNCHANGED scanGhost
        /\ FinishScan(id, Failed(ScanObject(id), e, scan_clock), ok,
                      "sleeping")

\* _execute_scan: asyncio.sleep(300) returns, the job leaves active_scans
EvictAfterGrace ==
    \E id \in ScanIds :
        /\ tasks[id] = "sleeping"
        /\ active_scans' = IF id \in DOMAIN active_scans
                           THEN RemoveKey(active_scans, id)
                           ELSE active_scans
        /\ tasks' = [tasks EXCEPT ![id] = "done"]
        /\ UNCHANGED <<disk, task_save, scan_clock, created, restarts,
                       persisted_at_restart, scanGhost, scan_budget,
                       detached, deleted>>
        /\ ScanRest

\* the process ends (its tasks with it) and a new AdvancedDiscoveryService is
\* constructed over the same results_dir
Restart ==
    /\ restarts < MaxRestarts
    /\ restarts' = restarts + 1
    /\ active_scans' = LoadScanHistory(disk)
    /\ tasks' = [id \in ScanIds |->
                   IF tasks[id] = "none" THEN "none" ELSE "killed"]
    /\ persisted_at_restart' = DOMAIN disk
    /\ detached' = EmptyTable
    /\ UNCHANGED <<disk, task_save, scan_clock, created, scanGhost,
                   scan_budget, deleted>>
    /\ ScanRest

ScanNext ==
    \/ StartScan
    \/ ScanCompletes
    \/ PingSweepReturns
    \/ PortScanReturns
    \/ ScanFails
    \/ EvictAfterGrace
    \/ Restart

ScanSpec == ScanInit /\ [][ScanNext]_vars

\* the steps of the _execute_scan tasks, which the event loop keeps
\* scheduling
ScanTaskNext ==
    \/ ScanCompletes
    \/ PingSweepReturns
    \/ PortScanReturns
    \/ ScanFails
    \/ EvictAfterGrace

ScanFairSpec == ScanSpec /\ WF_vars(ScanTaskNext)

Terminal(rec) == rec # Absent /\ rec.status \in {"completed", "failed"}

Retrievable(id) == id \in DOMAIN active_scans \/ id \in DOMAIN disk

(* C1 as stated: a job is 'running' at creation, and once get_scan_status
   has returned a terminal record for it, every later get_scan_status of the
   same process returns that same record. *)
C1_TerminalRecordStaysStep ==
    \A id \in ScanIds :
        /\ (id \notin created /\ id \in created')
              => GetScanStatus(id)'.status = "running"
        /\ (Terminal(GetScanStatus(id)) /\ restarts' = restarts)
              => GetScanStatus(id)' = GetScanStatus(id)
C1_Original == [][C1_TerminalRecordStaysStep]_vars

(* C1 amended: a job is 'running' at creation; its status changes at most
   once, from 'running' to 'completed' or 'failed'; and once terminal, every
   later get_scan_status that still finds the job (in the active table or in
   the results directory) returns the same record.  A job that was not
   written to the results directory (save_results false, or the write
   failed) is reported absent once it has left the active table. *)
C1_AmendedStep ==
    \A id \in ScanIds :
        /\ (id \notin created /\ id \in created')
              => GetScanStatus(id)'.status = "running"
        /\ (GetScanStatus(id) # Absent /\ GetScanStatus(id)' # Absent
            /\ GetScanStatus(id)'.status # GetScanStatus(id).status)
              => /\ GetScanStatus(id).status = "running"
                 /\ GetScanStatus(id)'.status \in {"completed", "failed"}
        /\ (Terminal(GetScanStatus(id)) /\ Retrievable(id)')
              => GetScanStatus(id)' = GetScanStatus(id)
C1_TerminalRecordStays == [][C1_AmendedStep]_vars

C1_Witness ==
    \E id \in ScanIds :
        /\ tasks[id] = "done"
        /\ id \notin DOMAIN active_scans
        /\ id \in DOMAIN disk
        /\ disk[id].status = "failed"
        /\ restarts = 0

(* C4: after a restart no read returns 'running' for a job whose record was
   in the results directory before the restart: get_scan_status and
   get_scan_history report it as 'failed' with a non-empty error message. *)
C4_RestartReclassifies ==
    \A id \in AllScanIds :
        (restarts > 0 /\ id \in persisted_at_restart /\ id \in DOMAIN disk)
           => /\ GetScanStatus(id).status # "running"
              /\ HistoryStatus(id) # "running"

CompletedPing(id) ==
    /\ id \in DOMAIN active_scans
    /\ active_scans[id].scan_type = "ping"
    /\ active_scans[id].status = "completed"
    /\ ValidCidr(active_scans[id].network)

(* C11: when a ping scan over a valid CIDR has completed, total_hosts is the
   number of usable host addresses of the range, scanned_hosts equals
   total_hosts, and discovered_devices has one entry per alive host; for
   10.0.0.0/30 with one host alive that is total_hosts = 2,
   scanned_hosts = 2 and one discovered device. *)
C11_PingScanTotals ==
    \A id \in ScanIds :
        CompletedPing(id)
           => /\ active_scans[id].total_hosts
                    = UsableHosts(active_scans[id].network)
              /\ active_scans[id].scanned_hosts = active_scans[id].total_hosts
              /\ Len(active_scans[id].discovered_devices) = alive_count[id]

(* C12: start_discovery_scan with a malformed CIDR registers no job,
   launches no task and persists no record, so every job that enters the
   active table (and every record its task writes) has a valid CIDR; a call
   with a valid CIDR adds exactly one job, in state 'running', with its task
   launched and not yet finished. *)
C12_StartScanStep ==
    /\ \A id \in ScanIds :
          (id \notin DOMAIN active_scans /\ id \in DOMAIN active_scans')
             => /\ ValidCidr(active_scans'[id].network)
                /\ active_scans'[id].status = "running"
                /\ tasks[id] = "none" /\ tasks'[id] = "scanning"
                /\ DOMAIN active_scans' = DOMAIN active_scans \cup {id}
                /\ disk' = disk
    /\ \A id \in ScanIds :
          (id \notin DOMAIN disk /\ id \in DOMAIN disk')
             => ValidCidr(disk'[id].network)
C12_StartScanValidates == [][C12_StartScanStep]_vars

\* the task of the job is between the failure and the end of its sleep
InGrace(id) == tasks[id] = "sleeping"

FailedActive(id) ==
    /\ id \in DOMAIN active_scans
    /\ active_scans[id].status = "failed"

(* C13: a job whose task failed is in the active table, and get_scan_status
   returns it with status 'failed' and the error message of the exception,
   during the whole grace period; the step that records the failure leaves
   the job in the table and puts the task to sleep, and within one process
   only the task's step after that sleep takes a failed job out of the
   table.  The failure stays inside the task: it changes nothing that
   start_discovery_scan gave its caller. *)
C13_GraceState ==
    \A id \in ScanIds :
        InGrace(id)
           => /\ FailedActive(id)
              /\ GetScanStatus(id) = active_scans[id]
              /\ GetScanStatus(id).error_message
                    \in ScanErrors \cup {InvalidNetworkFormat}
C13_GraceStep ==
    \A id \in ScanIds :
        /\ (id \in DOMAIN active_scans /\ active_scans[id].status = "running"
             /\ id \in DOMAIN active_scans'
             /\ active_scans'[id].status = "failed")
              => InGrace(id)' /\ created' = created
        /\ (FailedActive(id) /\ id \notin DOMAIN active_scans'
             /\ restarts' = restarts)
              => InGrace(id) /\ tasks'[id] = "done"
C13_FailedStaysForGrace == [](C13_GraceState) /\ [][C13_GraceStep]_vars

C13_Witness ==
    \E id \in ScanIds, other \in ScanIds :
        /\ InGrace(id)
        /\ FailedActive(id)
        /\ other \in DOMAIN active_scans
        /\ active_scans[other].started_at > active_scans[id].completed_at

(* C14: under a fair event loop every job that is terminal (completed or
   failed) in the active table is eventually removed from the active
   table. *)
C14_TerminalEvicted ==
    \A id \in ScanIds :
        (id \in DOMAIN active_scans /\ Terminal(active_scans[id]))
           ~> (id \notin DOMAIN active_scans)

(* C15: when the run of the external tool failed (not found, non-zero
   exit, timeout, or output that does not parse), the job is not 'failed'
   because of it, and it does not reach a terminal state without the
   built-in ping sweep having been run for its network. *)
C15_ToolFailureFallsBack ==
    \A id \in ScanIds :
        (id \in DOMAIN active_scans /\ nmap_outcome[id] = "failed")
           => /\ active_scans[id].status # "failed"
              /\ Terminal(active_scans[id]) => sweep_ran[id]

(***************************************************************************)
(* AdvancedDiscoveryService.get_scan_history                               *)
(***************************************************************************)
\* the dictionary get_scan_history builds for a job or a saved record
HistoryEntry(rec) ==
    [scan_id |-> rec.scan_id, network |-> rec.network,
     scan_type |-> rec.scan_type, status |-> rec.status,
     started_at |-> rec.started_at, completed_at |-> rec.completed_at,
     device_count |-> Len(rec.discovered_devices)]

\* the elements of S as a sequence, largest key first
RECURSIVE SortedDescending(_, _)
SortedDescending(S, key) ==
    IF S = {} THEN <<>>
    ELSE LET top == CHOOSE x \in S : \A y \in S : key[y] <= key[x]
         IN  <<top>> \o SortedDescending(S \ {top}, key)

Reverse(s) == [i \in 1..Len(s) |-> s[Len(s) + 1 - i]]

\* self.active_scans.values(): a dict iterates in insertion order, and jobs
\* are inserted by start_discovery_scan, so oldest started_at first
ActiveInOrder ==
    LET ids == DOMAIN active_scans
    IN  Reverse(SortedDescending(ids,
                                 [id \in ids |-> active_scans[id].started_at]))

\* st_mtime of <scan_id>.json: a file is written once, at the completed_at
\* stamp of its record; the files found at startup are older than the
\* process
FileMTime(id) == IF id \in PreIds THEN 0 ELSE disk[id].completed_at

\* sorted(results_dir.glob("*.json"), key=st_mtime, reverse=True)
FilesInOrder ==
    LET ids == DOMAIN disk
    IN  SortedDescending(ids, [id \in ids |-> FileMTime(id)])

HistoryIds(history) == {history[i].scan_id : i \in 1..Len(history)}

\* the loop over the saved results: stop at limit entries, skip the scan
\* ids already in history
RECURSIVE AddSavedResults(_, _, _)
AddSavedResults(history, files, limit) ==
    IF files = <<>> \/ Len(history) >= limit THEN history
    ELSE LET data == disk[Head(files)]
         IN  AddSavedResults(
                 IF data.scan_id \in HistoryIds(history) THEN history
                 ELSE Append(history, HistoryEntry(data)),
                 Tail(files), limit)

\* history[:limit] for limit >= 0
Truncate(history, limit) == SubSeq(history, 1, Min(limit, Len(history)))

GetScanHistory(limit) ==
    Truncate(AddSavedResults(
                 [i \in 1..Len(ActiveInOrder) |->
                     HistoryEntry(active_scans[ActiveInOrder[i]])],
                 FilesInOrder, limit),
             limit)

\* the jobs and records get_scan_history can draw from
KnownEntries ==
    {HistoryEntry(active_scans[id]) : id \in DOMAIN active_scans}
    \cup {HistoryEntry(disk[id]) : id \in DOMAIN disk \ DOMAIN active_scans}

HistoryBounded(h, limit) ==
    /\ Len(h) <= limit
    /\ \A i \in 1..Len(h) : h[i] \in KnownEntries
    /\ \A i, j \in 1..Len(h) : i # j => h[i].scan_id # h[j].scan_id

HistoryNewestFirst(h) ==
    /\ \A i, j \in 1..Len(h) : i < j => h[i].started_at >= h[j].started_at
    /\ \A e \in KnownEntries :
          e.scan_id \notin HistoryIds(h)
             => \A i \in 1..Len(h) : e.started_at <= h[i].started_at

(* C18: get_scan_history(limit) returns at most limit entries, each the
   entry of an active job or of a saved record, no scan id twice, ordered
   newest first (by started_at) over active and saved jobs together, so
   that every job left out is no newer than the jobs returned. *)
C18_HistoryNewestFirst ==
    \A limit \in 1..MaxLimit :
        /\ HistoryBounded(GetScanHistory(limit), limit)
        /\ HistoryNewestFirst(GetScanHistory(limit))

(***************************************************************************)
(* AdvancedDiscoveryService.auto_add_devices_from_scan                     *)
(***************************************************************************)
\* a record found in results_dir at startup, with the devices of its scan
PreRecordDevices(id, st, k) ==
    [PreRecord(id, st) EXCEPT !.discovered_devices = ProcessResults(k),
                              !.total_hosts = k, !.scanned_hosts = k]

\* device_info.get('hostname', device_info['ip'])
HostnameOf(device_info) ==
    IF "hostname" \in DOMAIN device_info THEN device_info.hostname
    ELSE device_info.ip

\* _generate_device_id: an address does not start with a letter, so the id
\* is "device-<name>-<host>-<timestamp>"
GenerateDeviceId(name, host, t) == <<"device", name, host, t>>

\* how DatabaseManager.add_device can end: the row is inserted (True),
\* sqlite3.IntegrityError is caught (False), any other database error is
\* raised
DbOutcomes == {"inserted", "integrity_error", "db_error"}
DbErrorMessage == "database is locked"
FailedToAdd == "Failed to add device to database"

\* the INSERT violates UNIQUE(host) exactly when the host is in the table
Possible(outcome, host) ==
    \/ outcome = "inserted" /\ host \notin registry
    \/ outcome = "integrity_error" /\ host \in registry
    \/ outcome = "db_error"

AddableAny(scan_data) == scan_data.status # "running"
\* the test "scan_data['status'] != 'completed'", negated
Addable(scan_data) == scan_data.status = "completed"

RemainingStop(todo, outcome) ==
    IF outcome = "inserted" THEN Tail(todo) ELSE <<>>
\* the for loop goes on to the next device_info whatever happened to this
\* one
Remaining(todo, outcome) == Tail(todo)

ScanNotFound == [success |-> FALSE, error |-> "Scan not found"]
ScanNotCompleted == [success |-> FALSE, error |-> "Scan not completed"]
AddResult(devices, added, failed) ==
    [success |-> TRUE, added_devices |-> added, failed_devices |-> failed,
     summary |-> [total_discovered |-> Len(devices),
                  successfully_added |-> Len(added),
                  failed |-> Len(failed)]]

AddRest == UNCHANGED <<retryVars, coordVars, scanVars, clsVars, sweepVars>>

\* a service constructed over a results directory that is empty or holds
\* one record of an earlier process, and a devices table that is empty or
\* holds the first host
AddInit ==
    /\ active_scans = EmptyTable
    /\ \/ disk = EmptyTable
       \/ \E st \in {"running", "completed", "failed"}, k \in 0..MaxDevices :
             disk = [id \in PreIds |-> PreRecordDevices(id, st, k)]
    /\ tasks = [id \in ScanIds |-> "none"]
    /\ task_save = [id \in ScanIds |-> FALSE]
    /\ scan_clock = 1
    /\ created = {}
    /\ restarts = 0
    /\ persisted_at_restart = DOMAIN disk
    /\ nmap_outcome = [id \in ScanIds |-> "none"]
    /\ alive_count = [id \in ScanIds |-> 0]
    /\ sweep_ran = [id \in ScanIds |-> FALSE]
    /\ scan_budget = 1
    /\ detached = EmptyTable
    /\ deleted = <<>>
    /\ add_pc = "idle"
    /\ add_scan_id = None
    /\ add_devices = <<>>
    /\ add_todo = <<>>
    /\ added_devices = <<>>
    /\ failed_devices = <<>>
    /\ add_result = Absent
    /\ registry \in SUBSET {1}
    /\ add_calls = 0
    /\ ClassifyIdle
    /\ SweepIdle
    /\ RetryIdle
    /\ CoordIdle

\* auto_add_devices_from_scan up to "await self.db_manager.initialize()"
AutoAddBegins ==
    \E sid \in AllScanIds :
        /\ add_pc \in {"idle", "returned"}
        /\ add_calls < MaxAdds
        /\ add_calls' = add_calls + 1
        /\ add_scan_id' = sid
        /\ added_devices' = <<>>
        /\ failed_devices' = <<>>
        /\ LET scan_data == GetScanStatus(sid) IN
             IF scan_data = Absent
             THEN /\ add_result' = ScanNotFound
                  /\ add_pc' = "returned"
                  /\ add_devices' = <<>>
                  /\ add_todo' = <<>>
             ELSE IF ~Addable(scan_data)
             THEN /\ add_result' = ScanNotCompleted
                  /\ add_pc' = "returned"
                  /\ add_devices' = <<>>
                  /\ add_todo' = <<>>
             ELSE /\ add_result' = Absent
                  /\ add_pc' = "adding"
                  /\ add_devices' = scan_data.discovered_devices
                  /\ add_todo' = scan_data.discovered_devices
        /\ UNCHANGED registry
        /\ AddRest

\* one turn of the for loop: Device(...), await add_device(device), and the
\* append to added_devices or failed_devices
AddDeviceReturns ==
    \E outcome \in DbOutcomes :
        /\ add_pc = "adding"
        /\ add_todo # <<>>
        /\ LET device_info == Head(add_todo)
               hostname == HostnameOf(device_info)
               device_id == GenerateDeviceId(hostname, device_info.ip,
                                             scan_clock)
           IN  /\ Possible(outcome, device_info.ip)
               /\ registry' = IF outcome = "inserted"
                              THEN registry \cup {device_info.ip}
                              ELSE registry
               /\ added_devices' = IF outcome = "inserted"
                                   THEN Append(added_devices, device_id)
                                   ELSE added_devices
               /\ failed_devices' =
                     IF outcome = "integrity_error"
                     THEN Append(failed_devices,
                                 [ip |-> device_info.ip, error |-> FailedToAdd])
                     ELSE IF outcome = "db_error"
                     THEN Append(failed_devices,
                                 [ip |-> device_info.ip,
                                  error |-> DbErrorMessage])
                     ELSE failed_devices
        /\ add_todo' = Remaining(add_todo, outcome)
        /\ UNCHANGED <<add_pc, add_scan_id, add_devices, add_result,
                       add_calls>>
        /\ AddRest

\* the return after the loop
AutoAddReturns ==
    /\ add_pc = "adding"
    /\ add_todo = <<>>
    /\ add_result' = AddResult(add_devices, added_devices, failed_devices)
    /\ add_pc' = "returned"
    /\ UNCHANGED <<add_scan_id, add_devices, add_todo, added_devices,
                   failed_devices, registry, add_calls>>
    /\ AddRest

AddNext ==
    \/ ScanNext
    \/ AutoAddBegins
    \/ AddDeviceReturns
    \/ AutoAddReturns

AddSpec == AddInit /\ [][AddNext]_vars

CompletedData(scan_data) ==
    scan_data # Absent /\ scan_data.status = "completed"

(* C16: a call of auto_add_devices_from_scan for a scan id that is unknown,
   'running' or 'failed' returns a failure result at once and leaves the
   devices table as it is, whatever devices the job holds; the table only
   changes inside a call that found its job 'completed'. *)
C16_AddStep ==
    /\ add_calls' # add_calls
          => (~CompletedData(GetScanStatus(add_scan_id'))
                 => /\ add_pc' = "returned"
                    /\ add_result'.success = FALSE
                    /\ registry' = registry)
    /\ (add_pc # "adding" /\ add_pc' = "adding")
          => CompletedData(GetScanStatus(add_scan_id'))
    /\ registry' # registry => add_pc = "adding"
C16_OnlyCompletedAdds == [][C16_AddStep]_vars

C16_Witness ==
    /\ add_pc = "returned"
    /\ add_result = ScanNotCompleted
    /\ GetScanStatus(add_scan_id) # Absent
    /\ GetScanStatus(add_scan_id).status = "failed"
    /\ Len(GetScanStatus(add_scan_id).discovered_devices) > 0
    /\ registry = {}

\* the hosts of the device ids in the added list
AddedHosts(added) == {added[i][3] : i \in 1..Len(added)}
FailedHosts(failed) == {failed[i].ip : i \in 1..Len(failed)}

(* C17: while the loop runs every device it has passed is in the added
   list or in the failed list; when the call for a completed job returns,
   every discovered device is in exactly one of the two lists, every failed
   entry carries its own error, and successfully_added + failed =
   total_discovered = the number of discovered devices. *)
C17_EveryDeviceAccounted ==
    /\ add_pc = "adding"
          => Len(added_devices) + Len(failed_devices) + Len(add_todo)
                = Len(add_devices)
    /\ (add_pc = "returned" /\ add_result.success)
          => /\ add_result.summary.total_discovered = Len(add_devices)
             /\ add_result.summary.successfully_added
                   + add_result.summary.failed
                   = add_result.summary.total_discovered
             /\ add_result.summary.successfully_added
                   = Len(add_result.added_devices)
             /\ add_result.summary.failed = Len(add_result.failed_devices)
             /\ \A i \in 1..Len(add_devices) :
                   add_devices[i].ip \in AddedHosts(add_result.added_devices)
                      <=> add_devices[i].ip
                             \notin FailedHosts(add_result.failed_devices)
             /\ \A i \in 1..Len(add_result.failed_devices) :
                   add_result.failed_devices[i].error
                      \in {FailedToAdd, DbErrorMessage}

C17_Witness ==
    /\ add_pc = "returned"
    /\ add_result.success
    /\ Len(add_devices) = 2
    /\ FailedHosts(add_result.failed_devices) = {add_devices[1].ip}
    /\ AddedHosts(add_result.added_devices) = {add_devices[2].ip}

(***************************************************************************)
(* NetworkDiscovery._detect_device_type / _suggest_protocols and           *)
(* AdvancedDiscoveryService._guess_device_type_from_ports /                *)
(* _suggest_protocols_from_ports                                           *)
(***************************************************************************)
\* ports_to_scan of discover_network, the default ports of port_scan
ScannedPorts == {22, 23, 80, 161, 443, 8080, 8443, 9000}

\* the keyword lists of _detect_device_type, in the order they are tried
RouterKeywords == {"router", "cisco", "juniper"}
SwitchKeywords == {"switch", "catalyst"}
FirewallKeywords == {"firewall", "fortigate", "palo alto"}
AccessPointKeywords == {"access point", "ap", "wireless"}
ServerKeywords == {"server", "linux", "windows"}

\* a system description, as the set of the keywords that are substrings of
\* its lower-case text
Description(keywords) == [cls |-> "str", keywords |-> keywords]
Descriptions ==
    {Absent} \cup {Description(k) : k \in {{}, {"cisco"}, {"switch"},
                                           {"cisco", "catalyst"},
                                           {"fortigate"}, {"ap"},
                                           {"linux"}}}

\* the port rules of _detect_device_type
DetectFromPorts(ports) ==
    IF 161 \in ports
    THEN IF 22 \in ports \/ 23 \in ports THEN "router" ELSE "switch"
    ELSE IF 22 \in ports /\ (80 \in ports \/ 443 \in ports) THEN "server"
    ELSE "generic"

\* NetworkDiscovery._detect_device_type
DetectDeviceType(ports, desc) ==
    IF desc = Absent THEN DetectFromPorts(ports)
    ELSE IF desc.keywords \cap RouterKeywords # {} THEN "router"
    ELSE IF desc.keywords \cap SwitchKeywords # {} THEN "switch"
    ELSE IF desc.keywords \cap FirewallKeywords # {} THEN "firewall"
    ELSE IF desc.keywords \cap AccessPointKeywords # {} THEN "access_point"
    ELSE IF desc.keywords \cap ServerKeywords # {} THEN "server"
    ELSE DetectFromPorts(ports)

\* "protocols or [default]"
OrDefault(protocols, default) ==
    IF protocols = <<>> THEN <<default>> ELSE protocols

\* NetworkDiscovery._suggest_protocols; snmp_available comes with the
\* system description
SuggestProtocols(ports, desc) ==
    OrDefault(
        (IF desc # Absent \/ 161 \in ports THEN <<"snmp">> ELSE <<>>)
        \o (IF 22 \in ports THEN <<"ssh">> ELSE <<>>)
        \o (IF ports \cap {80, 443, 8080, 8443} # {} THEN <<"rest">>
            ELSE <<>>),
        "snmp")

\* AdvancedDiscoveryService._suggest_protocols_from_ports
SuggestProtocolsFromPorts(ports) ==
    OrDefault(
        (IF 22 \in ports THEN <<"ssh">> ELSE <<>>)
        \o (IF 23 \in ports THEN <<"telnet">> ELSE <<>>)
        \o (IF 161 \in ports THEN <<"snmp">> ELSE <<>>)
        \o (IF ports \cap {80, 443, 8080} # {} THEN <<"rest">> ELSE <<>>),
        "ping")

\* AdvancedDiscoveryService._guess_device_type_from_ports
GuessDeviceTypeFromPorts(ports) ==
    IF 161 \in ports
    THEN IF 22 \in ports \/ 23 \in ports THEN "router" ELSE "switch"
    ELSE IF 80 \in ports \/ 443 \in ports THEN "server"
    ELSE IF 22 \in ports /\ Cardinality(ports) <= 2 THEN "firewall"
    ELSE "generic"

\* the scores are kept in tenths: 3 stands for 0.3
BoolToInt(b) == IF b THEN 1 ELSE 0

\* AdvancedDiscoveryService._calculate_confidence_from_ports
CalculateConfidenceFromPorts(ports) ==
    IF ports = {} THEN 2
    ELSE Min(3 + 3 * BoolToInt(161 \in ports) + 2 * BoolToInt(22 \in ports)
               + 1 * BoolToInt(23 \in ports)
               + 2 * BoolToInt(80 \in ports \/ 443 \in ports),
             10)

\* 'confidence_score': 0.4 of _process_simple_ping_results
SimplePingConfidence == 4
\* result.get('confidence_score', 0.5) of _process_full_results: the
\* dictionaries of discover_network have no 'confidence_score' key
FullConfidence == 5

ClassifyRest ==
    UNCHANGED <<retryVars, scanVars, coordVars, addVars, sweepVars>>

\* a host with some of the scanned ports open; discover_network asks for
\* the system description only when port 161 is open
ClassifyInit ==
    /\ cls_ports \in SUBSET ScannedPorts
    /\ cls_desc \in Descriptions
    /\ cls_desc # Absent => 161 \in cls_ports
    /\ cls_result = Absent
    /\ RetryIdle
    /\ ScanIdle
    /\ CoordIdle
    /\ AddIdle
    /\ SweepIdle

\* the host is classified: by discover_network in a full scan, by
\* _process_port_results (which has no system description) in a port scan
Classify ==
    /\ cls_result = Absent
    /\ cls_result' =
          [cls |-> "dict",
           detect_device_type |-> DetectDeviceType(cls_ports, cls_desc),
           suggest_protocols |-> SuggestProtocols(cls_ports, cls_desc),
           guess_device_type |-> GuessDeviceTypeFromPorts(cls_ports),
           suggest_protocols_from_ports |->
               SuggestProtocolsFromPorts(cls_ports),
           confidence_score |-> CalculateConfidenceFromPorts(cls_ports),
           full_confidence_score |-> FullConfidence]
    /\ UNCHANGED <<cls_ports, cls_desc>>
    /\ ClassifyRest

ClassifyNext == Classify

ClassifySpec == ClassifyInit /\ [][ClassifyNext]_vars

Classified == cls_result # Absent
Elements(s) == {s[i] : i \in 1..Len(s)}

(* C19: with no system description the classifiers return router, and
   protocols containing snmp and ssh, for open ports {161, 22}, and server
   for open ports {80, 443}; and for every input the classifier of the full
   scan and the classifier of the port scan return the same device type and
   the same protocols. *)
C19_ClassifierExamples ==
    Classified
       => /\ (cls_desc = Absent /\ cls_ports = {161, 22})
                => /\ cls_result.detect_device_type = "router"
                   /\ cls_result.guess_device_type = "router"
                   /\ {"snmp", "ssh"}
                         \subseteq Elements(cls_result.suggest_protocols)
                   /\ {"snmp", "ssh"}
                         \subseteq
                         Elements(cls_result.suggest_protocols_from_ports)
          /\ (cls_desc = Absent /\ cls_ports = {80, 443})
                => /\ cls_result.detect_device_type = "server"
                   /\ cls_result.guess_device_type = "server"
          /\ cls_desc = Absent
                => /\ cls_result.detect_device_type
                         = cls_result.guess_device_type
                   /\ Elements(cls_result.suggest_protocols)
                         = Elements(cls_result.suggest_protocols_from_ports)

\* the rule of the specification, applied in order
ReferenceType(ports) ==
    IF 161 \in ports /\ (22 \in ports \/ 23 \in ports) THEN "router"
    ELSE IF 161 \in ports THEN "switch"
    ELSE IF 22 \in ports /\ (80 \in ports \/ 443 \in ports) THEN "server"
    ELSE IF ports = {22} THEN "firewall"
    ELSE "generic"

KeywordType(desc) ==
    IF desc.keywords \cap RouterKeywords # {} THEN "router"
    ELSE IF desc.keywords \cap SwitchKeywords # {} THEN "switch"
    ELSE IF desc.keywords \cap FirewallKeywords # {} THEN "firewall"
    ELSE IF desc.keywords \cap AccessPointKeywords # {} THEN "access_point"
    ELSE IF desc.keywords \cap ServerKeywords # {} THEN "server"
    ELSE "none"

(* C20: for every subset of the scanned ports and no system description
   the device type of the classifiers is the reference rule (161 and 22 or
   23: router; 161: switch; 22 and 80 or 443: server; 22 alone: firewall;
   otherwise generic); with a system description that matches a keyword,
   the keyword decides the type. *)
C20_ReferenceRule ==
    Classified
       => /\ cls_desc = Absent
                => /\ cls_result.guess_device_type = ReferenceType(cls_ports)
                   /\ cls_result.detect_device_type
                         = ReferenceType(cls_ports)
          /\ (cls_desc # Absent /\ KeywordType(cls_desc) # "none")
                => cls_result.detect_device_type = KeywordType(cls_desc)

\* the fields of one scan record agree with its status
RecordConsistent(rec) ==
    /\ rec.completed_at # NoneInt <=> rec.status \in {"completed", "failed"}
    /\ rec.error_message # None <=> rec.status = "failed"
    /\ 0 <= rec.scanned_hosts
    /\ rec.scanned_hosts <= rec.total_hosts
    /\ rec.discovered_devices # <<>> => rec.status = "completed"

(* C28: in every reachable state, every scan job, as seen in the active
   table and in its persisted record, has completed_at set iff its status
   is 'completed' or 'failed', error_message set iff its status is 'failed',
   0 <= scanned_hosts <= total_hosts, and discovered devices only if its
   status is 'completed'. *)
C28_RecordInvariant ==
    /\ \A id \in DOMAIN active_scans : RecordConsistent(active_scans[id])
    /\ \A id \in DOMAIN disk : RecordConsistent(disk[id])

C28_Witness ==
    \E id \in ScanIds, other \in ScanIds :
        /\ id \in DOMAIN active_scans /\ id \in DOMAIN disk
        /\ active_scans[id].status = "failed"
        /\ active_scans[id].total_hosts > 0
        /\ disk[id].status = "failed"
        /\ other \in DOMAIN disk
        /\ disk[other].status = "completed"
        /\ disk[other].discovered_devices # <<>>

(***************************************************************************)
(* NetworkDiscovery.ping_sweep                                             *)
(***************************************************************************)
\* the network arguments of a sweep
SweepNetworks ==
    {"10.0.0.7/32", "10.0.0.0/31", "10.0.0.5/30", "10.0.0.0/29",
     "10.0.0.0/33"}

\* net.num_addresses of ipaddress.ip_network(network, strict=False); 0 when
\* it raises ValueError
NumAddresses(net) ==
    CASE net = "10.0.0.7/32" -> 1
      [] net = "10.0.0.0/31" -> 2
      [] net = "10.0.0.5/30" -> 4
      [] net = "10.0.0.0/29" -> 8
      [] OTHER -> 0

\* list(net.hosts()), an address written as its offset from the network
\* address: every address but the network and the broadcast address, both
\* addresses of a /31, the address of a /32
NetHosts(net) ==
    LET n == NumAddresses(net)
    IN  IF n <= 2 THEN [i \in 1..n |-> i - 1] ELSE [i \in 1..(n - 2) |-> i]

\* the limit of hosts[:1000], scaled to the networks of this model
HostLimit == MaxSweepHosts

\* hosts of ping_sweep: net.hosts(), [network_address] for a single-address
\* network, cut to the first HostLimit
SweepHosts(net) ==
    LET hosts == IF NumAddresses(net) = 1 THEN <<0>> ELSE NetHosts(net)
    IN  IF Len(hosts) > HostLimit THEN SubSeq(hosts, 1, HostLimit) ELSE hosts

\* (time.time() - start_time) * 1000 of _ping_host, in units of 0.001 ms
ResponseTimes == {0, 1234, 1236}

\* round(response_time, 2)
Round2(x) == ((x + 5) \div 10) * 10

WaitingPing == [pc |-> "waiting", result |-> Absent]

\* what a ping_with_semaphore task ends with: the tuple of _ping_host, which
\* is (host, False, 0.0) when the ping timed out or could not be run, or an
\* exception of run_in_executor that gather hands back
PingTuple(host, is_alive, rt) ==
    [cls |-> "tuple", host |-> host, is_alive |-> is_alive,
     response_time |-> rt]
PingException == [cls |-> "Exception"]

PingResults(host) ==
    {PingTuple(host, TRUE, rt) : rt \in ResponseTimes}
       \cup {PingTuple(host, FALSE, rt) : rt \in ResponseTimes}
       \cup {PingTuple(host, FALSE, 0), PingException}

IsAliveAnyTuple(p) == p.result.cls = "tuple"
\* not isinstance(result, Exception), and is_alive of the tuple
IsAlive(p) == p.result.cls = "tuple" /\ p.result.is_alive

AliveEntry(p) ==
    [ip |-> p.result.host, response_time |-> Round2(p.result.response_time),
     status |-> "alive"]

\* the loop over the gathered results: exceptions are skipped, a tuple with
\* is_alive is appended
RECURSIVE ProcessPings(_)
ProcessPings(ps) ==
    IF ps = <<>> THEN <<>>
    ELSE IF IsAlive(Head(ps))
    THEN <<AliveEntry(Head(ps))>> \o ProcessPings(Tail(ps))
    ELSE ProcessPings(Tail(ps))

SweepRest == UNCHANGED <<retryVars, scanVars, coordVars, addVars, clsVars>>

SweepInit ==
    /\ SweepIdle
    /\ RetryIdle
    /\ ScanIdle
    /\ CoordIdle
    /\ AddIdle
    /\ ClassifyIdle

\* ping_sweep up to "await asyncio.gather": the network is parsed
\* (ValueError "Invalid network format" otherwise), the hosts are listed,
\* the semaphore and one task per host are made
StartSweep ==
    \E net \in SweepNetworks, limit \in 1..MaxConcurrent :
        /\ sweep_pc = "idle"
        /\ sweep_network' = net
        /\ IF NumAddresses(net) = 0
           THEN /\ sweep_pc' = "raised"
                /\ UNCHANGED <<sweep_hosts, ping, sweep_sem>>
           ELSE /\ sweep_pc' = "pinging"
                /\ sweep_hosts' = SweepHosts(net)
                /\ ping' = [i \in 1..Len(SweepHosts(net)) |-> WaitingPing]
                /\ sweep_sem' = limit
        /\ UNCHANGED <<alive_hosts, probes>>
        /\ SweepRest

\* ping_with_semaphore: the semaphore is acquired and _ping_host is handed
\* to the executor
PingAcquire ==
    \E i \in DOMAIN ping :
        /\ sweep_pc = "pinging"
        /\ ping[i].pc = "waiting"
        /\ sweep_sem > 0
        /\ sweep_sem' = sweep_sem - 1
        /\ ping' = [ping EXCEPT ![i].pc = "running"]
        /\ UNCHANGED <<sweep_pc, sweep_network, sweep_hosts, alive_hosts,
                       probes>>
        /\ SweepRest

\* the executor call ends: _ping_host ran and returned its tuple, or
\* run_in_executor raised; the semaphore is released
PingReturns ==
    \E i \in DOMAIN ping :
        /\ ping[i].pc = "running"
        /\ \E r \in PingResults(sweep_hosts[i]) :
              /\ ping' = [ping EXCEPT ![i] = [pc |-> "done", result |-> r]]
              /\ probes' = IF r = PingException THEN probes
                            ELSE Append(probes, sweep_hosts[i])
        /\ sweep_sem' = sweep_sem + 1
        /\ UNCHANGED <<sweep_pc, sweep_network, sweep_hosts, alive_hosts>>
        /\ SweepRest

\* asyncio.gather returns once every task is done; alive_hosts is built
\* and returned
SweepReturns ==
    /\ sweep_pc = "pinging"
    /\ \A i \in DOMAIN ping : ping[i].pc = "done"
    /\ alive_hosts' = ProcessPings(ping)
    /\ sweep_pc' = "returned"
    /\ UNCHANGED <<sweep_network, sweep_hosts, ping, sweep_sem, probes>>
    /\ SweepRest

SweepNext ==
    \/ StartSweep
    \/ PingAcquire
    \/ PingReturns
    \/ SweepReturns

SweepSpec == SweepInit /\ [][SweepNext]_vars

\* the usable host addresses of a range, as offsets: all of a range of one
\* or two addresses, else all but the first and the last
UsableAddresses(net) ==
    IF NumAddresses(net) <= 2 THEN 0..(NumAddresses(net) - 1)
    ELSE 1..(NumAddresses(net) - 2)

NoDuplicates(s) == \A i \in DOMAIN s, j \in DOMAIN s : s[i] = s[j] => i = j

\* the addresses whose probe answered
Answered ==
    {sweep_hosts[i] :
        i \in {j \in DOMAIN ping : /\ ping[j].result.cls = "tuple"
                                    /\ ping[j].result.is_alive}}

(* C25: for every valid CIDR a ping sweep probes each usable host address
   at most once and at most the first HostLimit of them; what it returns
   holds only probed addresses of the range whose probe answered, none
   twice, each with a response time >= 0; a probe that failed or timed out
   removes its own host only, so exactly the answering hosts are
   returned. *)
C25_SweepSound ==
    /\ NoDuplicates(probes)
    /\ Len(probes) <= HostLimit
    /\ \A i \in DOMAIN probes :
          /\ probes[i] \in UsableAddresses(sweep_network)
          /\ \E k \in 1..HostLimit : k \in DOMAIN NetHosts(sweep_network)
                                        /\ NetHosts(sweep_network)[k] = probes[i]
    /\ sweep_pc = "returned"
          => /\ NoDuplicates([i \in DOMAIN alive_hosts |-> alive_hosts[i].ip])
             /\ {alive_hosts[i].ip : i \in DOMAIN alive_hosts} = Answered
             /\ \A i \in DOMAIN alive_hosts :
                   /\ \E k \in DOMAIN probes : probes[k] = alive_hosts[i].ip
                   /\ alive_hosts[i].response_time >= 0
                   /\ alive_hosts[i].status = "alive"

C25_Witness ==
    /\ sweep_pc = "returned"
    /\ Len(NetHosts(sweep_network)) > HostLimit
    /\ Len(sweep_hosts) = HostLimit
    /\ Len(alive_hosts) = 1
    /\ \E i \in DOMAIN ping : ping[i].result = PingException
    /\ \E i \in DOMAIN ping :
          ping[i].result.cls = "tuple" /\ ~ping[i].result.is_alive

\* the score of the specification, in tenths
ReferenceConfidence(ports) ==
    Min(10, 3 + 3 * BoolToInt(161 \in ports) + 2 * BoolToInt(22 \in ports)
              + 1 * BoolToInt(23 \in ports)
              + 2 * BoolToInt(80 \in ports \/ 443 \in ports))

(* C21: for every set of open ports of a host that responded, the empty
   set included, the confidence score in tenths is
   min(10, 3 + 3*[161] + 2*[22] + 1*[23] + 2*[80 or 443]); so the score of
   every discovered device is between 0.0 and 1.0 and at least 0.3. *)
C21_ConfidenceScore ==
    Classified
       => /\ cls_result.confidence_score = ReferenceConfidence(cls_ports)
          /\ cls_result.confidence_score \in 3..10
          /\ cls_result.full_confidence_score \in 3..10
          /\ SimplePingConfidence \in 3..10

(***************************************************************************)
(* DeviceMonitoringService: data                                           *)
(***************************************************************************)
Devices == {"d1", "d2"}       \* device ids of the loaded configuration
UnknownIds == {"dx"}          \* an id no device has
AllIds == Devices \cup UnknownIds
CallIds == 1..MaxCalls

\* an entry of 'devices' in devices.yaml: host (None when the key is
\* missing), enabled_protocols, and rev for the rest of its content
DeviceData(host, protocols, rev) ==
    [host |-> host, protocols |-> protocols, rev |-> rev]

\* DeviceManager._parse_device_config
DeviceConfig(id, data) ==
    [cls |-> "DeviceConfig", id |-> id, host |-> data.host,
     enabled_protocols |-> data.protocols, rev |-> data.rev]

\* the file the service is constructed over
InitialConfig == [d \in Devices |-> DeviceData("h", {"snmp"}, 1)]

\* contents the file can be given: edited records, an entry without host,
\* and no readable file at all
ConfigFiles ==
    {InitialConfig,
     ("d1" :> DeviceData("h", {"ssh"}, 2))
        @@ ("d2" :> DeviceData("h", {"snmp"}, 2)),
     ("d1" :> DeviceData("h", {"snmp", "ssh"}, 3))
        @@ ("d2" :> DeviceData(None, {"snmp"}, 3)),
     <<>>}

LoadConfigUnparsed(file) == [d \in DOMAIN file |-> DeviceConfig(d, file[d])]
\* DeviceManager._load_config: self.devices after loading the file; an entry
\* whose parse raises (device_data['host']) is skipped
LoadConfig(file) ==
    [d \in {x \in DOMAIN file : file[x].host # None} |->
        DeviceConfig(d, file[d])]

\* _create_monitor: SNMP > REST > SSH, SNMP when none is named; gen tells
\* the monitor objects of one reload from those of another
CreateMonitor(cfg, gen) ==
    [kind |-> IF "snmp" \in cfg.enabled_protocols THEN "snmp"
              ELSE IF "rest" \in cfg.enabled_protocols THEN "rest"
              ELSE IF "ssh" \in cfg.enabled_protocols THEN "ssh"
              ELSE "snmp",
     device_config |-> cfg, gen |-> gen]

\* _initialize_monitors
InitializeMonitors(mons, devices, gen) ==
    [d \in DOMAIN devices |-> CreateMonitor(devices[d], gen)] @@ mons

NoMonitor == [kind |-> "none"]

\* DeviceHealth of a poll at time t (only uptime is modelled)
DeviceHealth(t) == [cls |-> "DeviceHealth", uptime |-> t]

\* the interface list of a poll at time t
InterfaceList(t) ==
    <<[cls |-> "InterfaceInfo", name |-> "eth0", in_octets |-> t]>>

\* DeviceStatus(...); __post_init__ turns interfaces None into [] and
\* stamps last_seen
DeviceStatus(id, reachable, rt, err, health, ifaces, uptime, t) ==
    [cls |-> "DeviceStatus", device_id |-> id, reachable |-> reachable,
     response_time |-> rt, last_seen |-> t, error_message |-> err,
     health |-> health, interfaces |-> ifaces, uptime |-> uptime]

UnreachableStatusNoMessage(id, rt, msg, t) ==
    DeviceStatus(id, FALSE, rt, None, Absent, <<>>, NoneInt, t)
\* DeviceStatus(device_id, reachable=False, response_time, error_message)
UnreachableStatus(id, rt, msg, t) ==
    DeviceStatus(id, FALSE, rt, msg, Absent, <<>>, NoneInt, t)

\* DeviceStatus(device_id, reachable=True, response_time, health,
\*              interfaces, uptime=health.uptime if health else None)
ReachableStatus(id, rt, health, ifaces, t) ==
    DeviceStatus(id, TRUE, rt, None, health, ifaces,
                 IF health # Absent THEN health.uptime ELSE NoneInt, t)

\* dataclasses.asdict: nested dataclass instances become plain dicts
AsDictInterfaces(l) == [i \in 1..Len(l) |-> [l[i] EXCEPT !.cls = "dict"]]
AsDictStatus(st) ==
    [st EXCEPT !.cls = "dict",
               !.health = IF @ = Absent THEN Absent ELSE [@ EXCEPT !.cls = "dict"],
               !.interfaces = AsDictInterfaces(@)]

\* DeviceStatus(**cached_status): the fields are taken as they are
StatusFromDict(d) == [d EXCEPT !.cls = "DeviceStatus"]

\* [InterfaceInfo(**iface) for iface in cached_interfaces]
InterfacesFromDicts(l) ==
    [i \in 1..Len(l) |-> [l[i] EXCEPT !.cls = "InterfaceInfo"]]

ListOf(l) == [cls |-> "list", items |-> l]

\* _is_cache_valid
IsCacheValid(d, key) ==
    /\ d \in DOMAIN cache
    /\ key \in DOMAIN cache[d]
    /\ (now - cache[d][key].timestamp) < cache_ttl

\* _get_from_cache
GetFromCache(d, key) ==
    IF IsCacheValid(d, key) THEN cache[d][key].data ELSE Absent

SetCacheKeepFirst(ch, d, key, data, t, w) ==
    IF d \in DOMAIN ch /\ key \in DOMAIN ch[d] THEN ch
    ELSE (d :> (key :> [data |-> data, timestamp |-> t, writer |-> w])) @@ ch
\* _set_cache; writer names the call that stored the entry
SetCache(ch, d, key, data, t, w) ==
    LET old == IF d \in DOMAIN ch THEN ch[d] ELSE <<>>
    IN  (d :> ((key :> [data |-> data, timestamp |-> t, writer |-> w])
               @@ old)) @@ ch

\* the call that wrote the entry a new call finds, valid or expired
EntryWriter(d, key) ==
    IF d \in DOMAIN cache /\ key \in DOMAIN cache[d]
    THEN cache[d][key].writer ELSE 0

\* what monitor.get_interfaces() returns at time t when it does not raise;
\* SSHClient.get_interfaces returns []
MonitorInterfaces(mon, t) ==
    IF mon.kind = "ssh" THEN <<>> ELSE InterfaceList(t)

\* what monitor.get_health_metrics() returns at time t;
\* SSHClient.get_health_metrics returns DeviceHealth() with no field set
MonitorHealth(mon, t) ==
    IF mon.kind = "ssh" THEN DeviceHealth(NoneInt) ELSE DeviceHealth(t)

\* the SSH client's coroutines contain no await that suspends: awaiting
\* them runs them to their return inside the caller's step
Suspends(mon) == mon.kind # "ssh"

\* dataclasses.asdict(health)
AsDictHealth(h) == [h EXCEPT !.cls = "dict"]

\* DeviceHealth(**cached_health)
HealthFromDict(d) == [d EXCEPT !.cls = "DeviceHealth"]

IdleCall ==
    [op |-> "none", dev |-> "none", via |-> "none", pc |-> "idle",
     start |-> 0, fails0 |-> 0, seen |-> 0, mon_calls |-> <<>>,
     tc |-> "unset", rt |-> NoneInt, health |-> Absent, result |-> Absent,
     hit |-> FALSE, stored |-> NoneInt, monitor |-> NoMonitor,
     overtaken |-> FALSE]

Probing == {"test_connection", "get_health_metrics", "get_interfaces"}

NewCall(op, d, via) ==
    [IdleCall EXCEPT !.op = op, !.dev = d, !.via = via, !.start = now,
                     !.fails0 = IF d \in Devices THEN fails_left[d] ELSE 0,
                     !.seen = EntryWriter(d, op)]

BeginStatusCacheFirst(d, via) ==
    LET base == NewCall("status", d, via)
        cached == GetFromCache(d, "status")
    IN  IF cached # Absent
        THEN [base EXCEPT !.pc = "done", !.hit = TRUE,
                          !.result = StatusFromDict(cached)]
        ELSE IF d \notin monitors THEN [base EXCEPT !.pc = "done"]
        ELSE [base EXCEPT !.pc = "test_connection",
                          !.monitor = mon_obj[d],
                          !.mon_calls = <<"test_connection">>]
\* get_device_status up to its first suspension: unknown id, cache hit, or
\* monitor.get_device_status() entered (test_connection awaited); a monitor
\* whose coroutines do not suspend has returned by then
BeginStatus(d, via) ==
    LET base == NewCall("status", d, via)
        cached == GetFromCache(d, "status")
    IN  IF d \notin monitors THEN [base EXCEPT !.pc = "done"]
        ELSE IF cached # Absent
        THEN [base EXCEPT !.pc = "done", !.hit = TRUE,
                          !.result = StatusFromDict(cached)]
        ELSE IF Suspends(mon_obj[d])
        THEN [base EXCEPT !.pc = "test_connection",
                          !.monitor = mon_obj[d],
                          !.mon_calls = <<"test_connection">>]
        ELSE LET health == MonitorHealth(mon_obj[d], now)
             IN  [base EXCEPT
                    !.pc = "done", !.monitor = mon_obj[d], !.tc = "true",
                    !.rt = 0, !.health = health, !.stored = now,
                    !.mon_calls = <<"test_connection", "get_health_metrics",
                                    "get_interfaces">>,
                    !.result = ReachableStatus(d, 0, health,
                                 MonitorInterfaces(mon_obj[d], now), now)]

\* get_device_interfaces up to its first suspension; an empty cached list
\* is falsy and counts as a miss
BeginInterfaces(d) ==
    LET base == NewCall("interfaces", d, "single")
        cached == GetFromCache(d, "interfaces")
    IN  IF d \notin monitors
        THEN [base EXCEPT !.pc = "done", !.result = ListOf(<<>>)]
        ELSE IF cached # Absent /\ Len(cached.items) > 0
        THEN [base EXCEPT !.pc = "done", !.hit = TRUE,
                          !.result = ListOf(InterfacesFromDicts(cached.items))]
        ELSE IF Suspends(mon_obj[d])
        THEN [base EXCEPT !.pc = "co_get_interfaces",
                          !.monitor = mon_obj[d],
                          !.mon_calls = <<"get_interfaces">>]
        ELSE [base EXCEPT !.pc = "done", !.monitor = mon_obj[d],
                          !.stored = now,
                          !.mon_calls = <<"get_interfaces">>,
                          !.result =
                              ListOf(MonitorInterfaces(mon_obj[d], now))]

\* get_device_health up to its first suspension; asdict(health) always has
\* its keys, so a cached health is never falsy
BeginHealth(d) ==
    LET base == NewCall("health", d, "single")
        cached == GetFromCache(d, "health")
    IN  IF d \notin monitors THEN [base EXCEPT !.pc = "done"]
        ELSE IF cached # Absent
        THEN [base EXCEPT !.pc = "done", !.hit = TRUE,
                          !.result = HealthFromDict(cached)]
        ELSE IF Suspends(mon_obj[d])
        THEN [base EXCEPT !.pc = "co_get_health_metrics",
                          !.monitor = mon_obj[d],
                          !.mon_calls = <<"get_health_metrics">>]
        ELSE [base EXCEPT !.pc = "done", !.monitor = mon_obj[d],
                          !.stored = now,
                          !.mon_calls = <<"get_health_metrics">>,
                          !.result = MonitorHealth(mon_obj[d], now)]

\* the value _set_cache is given for the result of a call
CachedForm(call) ==
    CASE call.op = "status" -> AsDictStatus(call.result)
      [] call.op = "interfaces" ->
             ListOf(AsDictInterfaces(call.result.items))
      [] call.op = "health" -> AsDictHealth(call.result)

\* the cache after call c ran to its first suspension: a call that reached
\* its _set_cache without suspending has stored its result
StoreBegun(ch, begun, c) ==
    IF begun.pc = "done" /\ begun.stored # NoneInt
    THEN SetCache(ch, begun.dev, begun.op, CachedForm(begun), now, c)
    ELSE ch

SemaphoreFreeAlways(v) == TRUE
\* asyncio.Semaphore.locked() is false
SemaphoreFree(v) == v > 0

\* leaving "async with semaphore" in get_status_with_semaphore
Release(c) ==
    IF calls[c].via \in DOMAIN sem
    THEN [sem EXCEPT ![calls[c].via] = @ + 1] ELSE sem

\* get_device_status after the monitor returned: _set_cache, return status.
\* BaseMonitor.get_device_status catches every Exception itself, so the
\* coordinator's own except branch is never entered.
FinishStatus(c, status) ==
    /\ cache' = SetCache(cache, calls[c].dev, "status", AsDictStatus(status),
                         now, c)
    /\ calls' = [calls EXCEPT ![c].pc = "done", ![c].result = status,
                              ![c].stored = now]
    /\ sem' = Release(c)

OutsideCoord ==
    UNCHANGED <<scanVars, auxVars, attempt, retry_pc, last_exception,
                retry_result, retry_raised, op_log, sleeps, elapsed>>

ReloadRest ==
    /\ UNCHANGED <<bulk2_pc, bulk2_result>>
    /\ OutsideCoord

\* the queries leave the configuration and the monitor objects alone
CoordRest ==
    /\ UNCHANGED <<config_file, dm_devices, mon_obj, reloads>>
    /\ ReloadRest

\* DeviceMonitoringService.__init__ over the configuration file
Constructed(file) ==
    /\ config_file = file
    /\ dm_devices = LoadConfig(file)
    /\ mon_obj = InitializeMonitors(<<>>, LoadConfig(file), 0)
    /\ monitors = DOMAIN mon_obj
    /\ reloads = 0
    /\ bulk2_pc = "idle"
    /\ bulk2_result = <<>>

(***************************************************************************)
(* DeviceMonitoringService: single-device queries                          *)
(***************************************************************************)
CoordInit ==
    /\ Constructed(InitialConfig)
    /\ cache = <<>>
    /\ cache_ttl = MaxTtl
    /\ max_concurrent = 1
    /\ now = 0
    /\ fails_left \in [Devices -> 0..MaxFails]
    /\ calls = [c \in CallIds |-> IdleCall]
    /\ bulk_pc = "idle"
    /\ bulk_ids = <<>>
    /\ sem = <<>>
    /\ bulk_result = <<>>
    /\ retry_count = DefaultRetryCount
    /\ RetryAtRest
    /\ ScanIdle
    /\ AuxIdle

NextSlot(c) ==
    /\ c \in DOMAIN calls
    /\ calls[c].pc = "idle"
    /\ \A b \in DOMAIN calls : b < c => calls[b].pc # "idle"

\* DeviceMonitoringService.get_device_status is called
GetDeviceStatus ==
    \E c \in CallIds, d \in AllIds :
        /\ bulk_pc = "idle"
        /\ NextSlot(c)
        /\ calls' = [calls EXCEPT ![c] = BeginStatus(d, "single")]
        /\ cache' = StoreBegun(cache, BeginStatus(d, "single"), c)
        /\ UNCHANGED <<monitors, cache_ttl, max_concurrent, now,
                       fails_left, bulk_pc, bulk_ids, sem, bulk_result,
                       retry_count>>
        /\ CoordRest

\* DeviceMonitoringService.get_device_interfaces is called
GetDeviceInterfaces ==
    \E c \in CallIds, d \in AllIds :
        /\ bulk_pc = "idle"
        /\ NextSlot(c)
        /\ calls' = [calls EXCEPT ![c] = BeginInterfaces(d)]
        /\ cache' = StoreBegun(cache, BeginInterfaces(d), c)
        /\ UNCHANGED <<monitors, cache_ttl, max_concurrent, now,
                       fails_left, bulk_pc, bulk_ids, sem, bulk_result,
                       retry_count>>
        /\ CoordRest

\* DeviceMonitoringService.get_device_health is called
GetDeviceHealth ==
    \E c \in CallIds, d \in AllIds :
        /\ bulk_pc = "idle"
        /\ NextSlot(c)
        /\ calls' = [calls EXCEPT ![c] = BeginHealth(d)]
        /\ cache' = StoreBegun(cache, BeginHealth(d), c)
        /\ UNCHANGED <<monitors, cache_ttl, max_concurrent, now,
                       fails_left, bulk_pc, bulk_ids, sem, bulk_result,
                       retry_count>>
        /\ CoordRest

\* BaseMonitor.get_device_status: test_connection returns.  False ends the
\* monitor call with "Device unreachable"; the coordinator stores and
\* returns it
MonTestConnection ==
    \E c \in DOMAIN calls, up \in BOOLEAN :
        LET d == calls[c].dev
            rt == now - calls[c].start
        IN  /\ calls[c].pc = "test_connection"
            /\ ~up => fails_left[d] > 0
            /\ IF up
               THEN /\ calls' = [calls EXCEPT
                                   ![c].pc = "get_health_metrics",
                                   ![c].tc = "true", ![c].rt = rt,
                                   ![c].mon_calls =
                                       Append(@, "get_health_metrics")]
                    /\ UNCHANGED <<cache, sem, fails_left>>
               ELSE /\ fails_left' = [fails_left EXCEPT ![d] = @ - 1]
                    /\ cache' = SetCache(cache, d, "status",
                           AsDictStatus(UnreachableStatus(d, rt,
                                          "Device unreachable", now)),
                           now, c)
                    /\ calls' = [calls EXCEPT
                                   ![c].pc = "done", ![c].tc = "false",
                                   ![c].rt = rt, ![c].stored = now,
                                   ![c].result = UnreachableStatus(d, rt,
                                          "Device unreachable", now)]
                    /\ sem' = Release(c)
            /\ UNCHANGED <<monitors, cache_ttl, max_concurrent, now,
                           bulk_pc, bulk_ids, bulk_result, retry_count>>
            /\ CoordRest

\* BaseMonitor.get_device_status: get_health_metrics returns (the concrete
\* monitors swallow their errors and always return a DeviceHealth)
MonGetHealthMetrics ==
    \E c \in DOMAIN calls :
        /\ calls[c].pc = "get_health_metrics"
        /\ calls' = [calls EXCEPT ![c].pc = "get_interfaces",
                                  ![c].health =
                                      MonitorHealth(calls[c].monitor, now),
                                  ![c].mon_calls = Append(@, "get_interfaces")]
        /\ UNCHANGED <<monitors, cache, cache_ttl, max_concurrent, now,
                       fails_left, bulk_pc, bulk_ids, sem, bulk_result,
                       retry_count>>
        /\ CoordRest

\* BaseMonitor.get_device_status: get_interfaces returns or raises
\* Exception("Failed to get interfaces: ..."); the coordinator stores and
\* returns the status the monitor built
MonGetInterfaces ==
    \E c \in DOMAIN calls :
        LET d == calls[c].dev
            status == IF fails_left[d] = 0
                      THEN ReachableStatus(d, calls[c].rt, calls[c].health,
                               MonitorInterfaces(calls[c].monitor, now), now)
                      ELSE UnreachableStatus(d, now - calls[c].start,
                                             "Failed to get interfaces", now)
        IN  /\ calls[c].pc = "get_interfaces"
            /\ fails_left' = [fails_left EXCEPT
                                ![d] = IF @ > 0 THEN @ - 1 ELSE 0]
            /\ FinishStatus(c, status)
            /\ UNCHANGED <<monitors, cache_ttl, max_concurrent, now,
                           bulk_pc, bulk_ids, bulk_result, retry_count>>
            /\ CoordRest

\* get_device_interfaces: monitor.get_interfaces() returns (store, return)
\* or raises (return [])
CoGetInterfacesReturns ==
    \E c \in DOMAIN calls :
        LET d == calls[c].dev
        IN  /\ calls[c].pc = "co_get_interfaces"
            /\ IF fails_left[d] = 0
               THEN /\ cache' = SetCache(cache, d, "interfaces",
                               ListOf(AsDictInterfaces(
                                   MonitorInterfaces(calls[c].monitor, now))),
                               now, c)
                    /\ calls' = [calls EXCEPT
                                   ![c].pc = "done", ![c].stored = now,
                                   ![c].result = ListOf(
                                     MonitorInterfaces(calls[c].monitor, now))]
                    /\ UNCHANGED fails_left
               ELSE /\ fails_left' = [fails_left EXCEPT ![d] = @ - 1]
                    /\ calls' = [calls EXCEPT ![c].pc = "done",
                                              ![c].result = ListOf(<<>>)]
                    /\ UNCHANGED cache
            /\ UNCHANGED <<monitors, cache_ttl, max_concurrent, now,
                           bulk_pc, bulk_ids, sem, bulk_result, retry_count>>
            /\ CoordRest

\* get_device_health: monitor.get_health_metrics() returns (the concrete
\* monitors swallow their errors and always return a DeviceHealth); the
\* result is stored and returned
CoGetHealthMetricsReturns ==
    \E c \in DOMAIN calls :
        LET d == calls[c].dev
            health == MonitorHealth(calls[c].monitor, now)
        IN  /\ calls[c].pc = "co_get_health_metrics"
            /\ cache' = SetCache(cache, d, "health", AsDictHealth(health),
                                 now, c)
            /\ calls' = [calls EXCEPT ![c].pc = "done", ![c].stored = now,
                                      ![c].result = health]
            /\ UNCHANGED <<monitors, cache_ttl, max_concurrent, now,
                           fails_left, bulk_pc, bulk_ids, sem, bulk_result,
                           retry_count>>
            /\ CoordRest

\* time passes
Tick ==
    /\ now < MaxTime
    /\ now' = now + 1
    /\ UNCHANGED <<monitors, cache, cache_ttl, max_concurrent, fails_left,
                   calls, bulk_pc, bulk_ids, sem, bulk_result, retry_count>>
    /\ CoordRest

CoordNext ==
    \/ GetDeviceStatus
    \/ GetDeviceInterfaces
    \/ MonTestConnection
    \/ MonGetHealthMetrics
    \/ MonGetInterfaces
    \/ CoGetInterfacesReturns
    \/ Tick

CoordSpec == CoordInit /\ [][CoordNext]_vars

StatusCalls == {c \in DOMAIN calls : calls[c].op = "status"}
Returned(c) == calls[c].pc = "done"

\* two get_device_status calls for one device that both started on the
\* same cold or expired cache entry
ConcurrentMisses(c1, c2) ==
    /\ c1 # c2
    /\ calls[c1].op = "status" /\ calls[c2].op = "status"
    /\ calls[c1].dev = calls[c2].dev
    /\ calls[c1].dev \in monitors
    /\ calls[c1].pc # "idle" /\ calls[c2].pc # "idle"
    /\ ~calls[c1].hit /\ ~calls[c2].hit
    /\ calls[c1].seen = calls[c2].seen

\* the status call c returned is the one its own probe produced
OwnProbeResult(c) ==
    /\ calls[c].stored # NoneInt
    /\ calls[c].result.device_id = calls[c].dev
    /\ calls[c].result.last_seen = calls[c].stored
    /\ calls[c].result.reachable
          => /\ calls[c].tc = "true"
             /\ calls[c].result.response_time = calls[c].rt
             /\ calls[c].result.health = calls[c].health
    /\ calls[c].tc = "false" => ~calls[c].result.reachable

(* C27: two concurrent get_device_status calls for the same device on a cold
   or expired cache are not deduplicated: each issues its own monitor probe
   and returns the result of its own probe, and once both have returned the
   (device, 'status') entry holds the whole value of the call that stored
   last, never a mixture, with the time of that write. *)
C27_NoDeduplication ==
    \A c1 \in DOMAIN calls, c2 \in DOMAIN calls :
        ConcurrentMisses(c1, c2)
        => /\ calls[c1].mon_calls # <<>>
           /\ calls[c1].mon_calls[1] = "test_connection"
           /\ Returned(c1) => OwnProbeResult(c1)
           /\ (Returned(c1) /\ Returned(c2))
                 => LET e == cache[calls[c1].dev]["status"]
                        w == e.writer
                    IN  /\ w \in StatusCalls
                        /\ calls[w].dev = calls[c1].dev
                        /\ ~calls[w].hit
                        /\ e.data = AsDictStatus(calls[w].result)
                        /\ e.timestamp = calls[w].stored
                        /\ calls[w].stored >= calls[c1].stored
                        /\ calls[w].stored >= calls[c2].stored

C27_Witness ==
    \E c1 \in DOMAIN calls, c2 \in DOMAIN calls :
        /\ ConcurrentMisses(c1, c2)
        /\ Returned(c1) /\ Returned(c2)
        /\ calls[c1].stored < calls[c2].stored
        /\ ~calls[c1].result.reachable /\ calls[c2].result.reachable
        /\ cache[calls[c1].dev]["status"].writer = c2

(***************************************************************************)
(* DeviceMonitoringService: reload_devices and clear_cache                 *)
(***************************************************************************)
\* the positions at which a call is suspended in an await of its monitor
Awaiting == Probing \cup {"co_get_interfaces", "co_get_health_metrics"}

\* the calls that are suspended while reload_devices or clear_cache runs
\* are marked; device None stands for all devices
Overtake(cs, device) ==
    [c \in DOMAIN cs |->
        IF cs[c].pc \in Awaiting /\ (device = None \/ cs[c].dev = device)
        THEN [cs[c] EXCEPT !.overtaken = TRUE] ELSE cs[c]]

\* the queries that run beside reload_devices and clear_cache
ReloadCallIds == {1, 2}

ReloadInit ==
    /\ Constructed(InitialConfig)
    /\ cache = <<>>
    /\ cache_ttl = 1
    /\ max_concurrent = 1
    /\ now = MaxTime - 1
    /\ fails_left = [d \in Devices |-> 0]
    /\ calls = [c \in ReloadCallIds |-> IdleCall]
    /\ bulk_pc = "idle"
    /\ bulk_ids = <<>>
    /\ sem = <<>>
    /\ bulk_result = <<>>
    /\ retry_count = DefaultRetryCount
    /\ RetryAtRest
    /\ ScanIdle
    /\ AuxIdle

\* devices.yaml is edited while the service runs
EditConfig ==
    \E file \in ConfigFiles :
        /\ reloads < MaxReloads
        /\ file # config_file
        /\ config_file' = file
        /\ UNCHANGED <<monitors, cache, cache_ttl, max_concurrent, now,
                       fails_left, calls, bulk_pc, bulk_ids, sem, bulk_result,
                       dm_devices, mon_obj, reloads, retry_count>>
        /\ ReloadRest

\* reload_devices: reload_config, monitors.clear(), cache.clear(),
\* _initialize_monitors; it has no await, so it runs in one step
ReloadDevices ==
    /\ reloads < MaxReloads
    /\ dm_devices' = LoadConfig(config_file)
    /\ mon_obj' = InitializeMonitors(<<>>, LoadConfig(config_file), reloads + 1)
    /\ monitors' = DOMAIN mon_obj'
    /\ cache' = <<>>
    /\ reloads' = reloads + 1
    /\ calls' = Overtake(calls, None)
    /\ UNCHANGED <<cache_ttl, max_concurrent, now, fails_left, bulk_pc,
                   bulk_ids, sem, bulk_result, config_file, retry_count>>
    /\ ReloadRest

\* clear_cache(device_id): pop the device's entries, or clear() when the
\* argument is None
ClearCache ==
    \E device \in AllIds \cup {None} :
        /\ cache' = IF device # None THEN RemoveKey(cache, device) ELSE <<>>
        /\ calls' = Overtake(calls, device)
        /\ UNCHANGED <<monitors, cache_ttl, max_concurrent, now, fails_left,
                       bulk_pc, bulk_ids, sem, bulk_result, config_file,
                       dm_devices, mon_obj, reloads, retry_count>>
        /\ ReloadRest

ReloadNext ==
    \/ GetDeviceStatus
    \/ GetDeviceInterfaces
    \/ GetDeviceHealth
    \/ MonTestConnection
    \/ MonGetHealthMetrics
    \/ MonGetInterfaces
    \/ CoGetInterfacesReturns
    \/ CoGetHealthMetricsReturns
    \/ Tick
    \/ EditConfig
    \/ ReloadDevices
    \/ ClearCache

ReloadSpec == ReloadInit /\ [][ReloadNext]_vars

\* the device-to-monitor map is whole: one monitor per loaded record,
\* built from that record, all made by the same load
MapWhole ==
    /\ monitors = DOMAIN mon_obj
    /\ DOMAIN mon_obj = DOMAIN dm_devices
    /\ \A d \in DOMAIN mon_obj :
          /\ mon_obj[d].device_config = dm_devices[d]
          /\ mon_obj[d].gen = reloads

\* a step of reload_devices ends with the freshly loaded records as the
\* keys, a new monitor for each built from it, and an empty cache
ReloadStep ==
    reloads' = reloads + 1
    => /\ DOMAIN mon_obj' = {d \in DOMAIN config_file :
                                config_file[d].host # None}
       /\ monitors' = DOMAIN mon_obj'
       /\ \A d \in DOMAIN mon_obj' :
             /\ mon_obj'[d].device_config.id = d
             /\ mon_obj'[d].device_config.rev = config_file[d].rev
             /\ mon_obj'[d].device_config.enabled_protocols
                    = config_file[d].protocols
             /\ mon_obj'[d].gen = reloads'
       /\ cache' = <<>>

(* C22: reload_devices is atomic with respect to every other coordinator
   operation: in every state a query can run in, the device-to-monitor map
   is whole, never partially rebuilt; and right after reload_devices the
   map's keys are the freshly loaded device record ids, every monitor was
   built from the fresh record, and the cache holds no entry. *)
C22_ReloadAtomic == [](MapWhole) /\ [][ReloadStep]_vars

C22_Witness ==
    /\ reloads > 0
    /\ monitors = {"d1"}
    /\ mon_obj["d1"].kind = "snmp"
    /\ \E c \in DOMAIN calls :
          calls[c].pc \in Awaiting /\ calls[c].monitor.gen < reloads
    /\ \E c \in DOMAIN calls :
          calls[c].pc = "done" /\ calls[c].dev = "d2"
             /\ calls[c].mon_calls = <<>> /\ calls[c].result = Absent

(* C29: after reload_devices or clear_cache has returned, the cache never
   comes to hold an entry written by a request that started before it: a
   call that was awaiting its monitor when the reload or clear ran does not
   store its result afterwards, so the cache has no entry for a device id
   that is not in the monitor map and no value produced by a replaced
   monitor. *)
C29_NoStaleStore ==
    \A d \in DOMAIN cache : \A key \in DOMAIN cache[d] :
        LET w == cache[d][key].writer
        IN  /\ ~calls[w].overtaken
            /\ d \in monitors
            /\ calls[w].monitor = mon_obj[d]

\* the same for clear_cache alone, with no reload in the run
ClearCacheNoStaleStore ==
    reloads = 0
       => \A d \in DOMAIN cache : \A key \in DOMAIN cache[d] :
             ~calls[cache[d][key].writer].overtaken

\* call c2 started on the cache entry that call c1 stored, inside its TTL
WithinTtlOf(c1, c2) ==
    /\ calls[c1].pc = "done"
    /\ calls[c1].stored # NoneInt
    /\ calls[c2].pc # "idle"
    /\ calls[c2].op = calls[c1].op
    /\ calls[c2].dev = calls[c1].dev
    /\ calls[c2].seen = c1
    /\ calls[c2].start - calls[c1].stored < cache_ttl

(* C23: get_device_interfaces and get_device_health cache under their own
   keys: after a call that stored its result, a second call for the same
   device within the TTL issues no monitor call, whatever the first call
   returned (an empty interface list, a DeviceHealth with no field set);
   and get_device_health calls only the monitor's get_health_metrics and
   writes only the 'health' entry. *)
C23_CacheThenDelegate ==
    /\ \A c1 \in DOMAIN calls, c2 \in DOMAIN calls :
          (calls[c1].op \in {"interfaces", "health"} /\ WithinTtlOf(c1, c2))
             => calls[c2].mon_calls = <<>>
    /\ \A c \in DOMAIN calls :
          calls[c].op = "health"
             => /\ \A i \in DOMAIN calls[c].mon_calls :
                      calls[c].mon_calls[i] = "get_health_metrics"
                /\ \A d \in DOMAIN cache : \A key \in DOMAIN cache[d] :
                      cache[d][key].writer = c => key = "health"

\* the part of C23 about get_device_health alone
HealthCacheThenDelegate ==
    \A c1 \in DOMAIN calls, c2 \in DOMAIN calls :
        (calls[c1].op = "health" /\ WithinTtlOf(c1, c2))
           => /\ calls[c2].mon_calls = <<>>
              /\ calls[c2].hit => calls[c2].result = calls[c1].result

\* a get_device_status call for an id that is not in self.monitors
UnknownIdStep ==
    \A c \in DOMAIN calls :
        (/\ calls[c].pc = "idle"
         /\ calls'[c].pc # "idle"
         /\ calls'[c].op = "status"
         /\ calls'[c].dev \notin monitors)
        => /\ calls'[c].pc = "done"
           /\ calls'[c].result = Absent
           /\ calls'[c].mon_calls = <<>>
           /\ \A b \in DOMAIN calls \ {c} : calls'[b] = calls[b]
           /\ UNCHANGED <<cache, monitors, mon_obj, dm_devices>>

(* C24: get_device_status(id) for an id that is not in the device-to-monitor
   map returns None without raising, issues no monitor probe and leaves the
   cache and the monitor map unchanged, in every state, before and after
   reload_devices or clear_cache. *)
C24_UnknownIdAbsent == [][UnknownIdStep]_vars

C24_Witness ==
    /\ reloads > 0
    /\ \E c \in DOMAIN calls :
          /\ calls[c].op = "status"
          /\ calls[c].dev \in Devices \ monitors
          /\ calls[c].pc = "done"
          /\ calls[c].seen # 0
          /\ calls[c].result = Absent


(* C2: for a known device, a get_device_status call that starts inside the
   TTL window opened by an earlier call's cache store issues no monitor
   probe (one probe in total) and returns a DeviceStatus identical to the
   one the earlier call returned; a call that starts once
   now - storedAt >= ttl finds the expired entry still in place, issues
   exactly one new probe and stores the entry again. *)
C2_CacheIdempotent ==
    \A c1 \in StatusCalls, c2 \in StatusCalls :
        (/\ Returned(c1)
         /\ calls[c1].stored # NoneInt
         /\ calls[c2].pc # "idle"
         /\ calls[c2].dev = calls[c1].dev
         /\ calls[c2].seen = c1)
        => IF calls[c2].start - calls[c1].stored < cache_ttl
           THEN /\ Returned(c2)
                /\ calls[c2].mon_calls = <<>>
                /\ calls[c1].mon_calls[1] = "test_connection"
                /\ calls[c2].result = calls[c1].result
           ELSE /\ calls[c2].mon_calls # <<>>
                /\ calls[c2].mon_calls[1] = "test_connection"
                /\ EntryWriter(calls[c2].dev, "status") # 0
                /\ Returned(c2) => /\ calls[c2].stored # NoneInt
                                   /\ EntryWriter(calls[c2].dev, "status") = c2

(* C5: when the monitor operation behind get_device_status or
   get_device_interfaces fails on fewer than retry_count consecutive
   attempts and then succeeds, the coordinator call returns the successful
   result. *)
C5_RetryAroundMonitor ==
    \A c \in DOMAIN calls :
        (/\ Returned(c)
         /\ calls[c].dev \in monitors
         /\ ~calls[c].hit
         /\ calls[c].fails0 < retry_count)
        => /\ calls[c].op = "status" => calls[c].result.reachable
           /\ calls[c].op = "interfaces" => calls[c].result.items # <<>>

(* C8: in the monitor's get_device_status, if test_connection succeeds and
   a later sub-query fails, the returned DeviceStatus still has reachable
   true and keeps the section that succeeded. *)
C8_PartialDegradation ==
    \A c \in StatusCalls :
        (Returned(c) /\ calls[c].tc = "true")
        => /\ calls[c].result.reachable
           /\ calls[c].result.health = calls[c].health

UnreachableShape(st) ==
    ~st.reachable => /\ st.health = Absent
                     /\ st.interfaces = <<>>
                     /\ st.error_message \notin {None, ""}

(* C9: every DeviceStatus returned by get_device_status, fresh or from the
   cache, and every cached status, satisfies: reachable false implies no
   health, no interfaces and a non-empty error message; and when
   test_connection returns false the monitor calls neither
   get_health_metrics nor get_interfaces. *)
C9_UnreachableInvariant ==
    /\ \A c \in StatusCalls :
          /\ (Returned(c) /\ calls[c].result # Absent)
                => UnreachableShape(calls[c].result)
          /\ calls[c].tc = "false"
                => /\ calls[c].mon_calls = <<"test_connection">>
                   /\ Returned(c)
                   /\ ~calls[c].result.reachable
    /\ \A d \in DOMAIN cache :
          "status" \in DOMAIN cache[d]
             => UnreachableShape(cache[d]["status"].data)

C9_Witness ==
    \E c1 \in StatusCalls, c2 \in StatusCalls :
        /\ calls[c1].tc = "false"
        /\ Returned(c2)
        /\ calls[c2].hit
        /\ ~calls[c2].result.reachable

(***************************************************************************)
(* DeviceMonitoringService: get_multiple_device_status                     *)
(***************************************************************************)
IdSeqs == UNION {[1..n -> AllIds] : n \in 0..MaxIds}

BulkInit ==
    /\ Constructed(InitialConfig)
    /\ cache = <<>>
    /\ cache_ttl = MaxTtl
    /\ max_concurrent \in 1..MaxConcurrent
    /\ now = 0
    /\ fails_left \in [Devices -> 0..MaxFails]
    /\ calls = <<>>
    /\ bulk_pc = "idle"
    /\ bulk_ids = <<>>
    /\ sem = <<>>
    /\ bulk_result = <<>>
    /\ retry_count = DefaultRetryCount
    /\ RetryAtRest
    /\ ScanIdle
    /\ AuxIdle

\* get_multiple_device_status up to "await asyncio.gather": the semaphore
\* is created and one get_status_with_semaphore task is made per id
StartBulk(ids) ==
    /\ bulk_pc = "idle"
    /\ bulk_ids' = ids
    /\ sem' = ("bulk" :> max_concurrent) @@ sem
    /\ calls' = [c \in 1..Len(ids) |->
                   [IdleCall EXCEPT !.op = "status", !.dev = ids[c],
                                    !.via = "bulk", !.pc = "waiting"]]
    /\ bulk_pc' = "gathering"
    /\ UNCHANGED <<monitors, cache, cache_ttl, max_concurrent, now,
                   fails_left, bulk_result, retry_count>>
    /\ CoordRest

\* get_multiple_device_status(device_ids)
GetMultipleDeviceStatus == \E ids \in IdSeqs : StartBulk(ids)

\* get_all_device_status: device_ids = list(self.monitors.keys())
GetAllDeviceStatus ==
    \E ids \in IdSeqs :
        /\ Len(ids) = Cardinality(monitors)
        /\ {ids[i] : i \in 1..Len(ids)} = monitors
        /\ StartBulk(ids)

\* get_status_with_semaphore: the semaphore is acquired and
\* get_device_status runs to its first suspension; a call that returns at
\* once (unknown id, cache hit) releases the semaphore in the same step
TaskAcquire ==
    \E c \in DOMAIN calls :
        LET begun == BeginStatus(calls[c].dev, calls[c].via)
        IN  /\ calls[c].pc = "waiting"
            /\ SemaphoreFree(sem[calls[c].via])
            /\ calls' = [calls EXCEPT ![c] = begun]
            /\ cache' = StoreBegun(cache, begun, c)
            /\ sem' = IF begun.pc = "done" THEN sem
                      ELSE [sem EXCEPT ![calls[c].via] = @ - 1]
            /\ UNCHANGED <<monitors, cache_ttl, max_concurrent, now,
                           fails_left, bulk_pc, bulk_ids, bulk_result,
                           retry_count>>
            /\ CoordRest

Max(S) == CHOOSE x \in S : \A y \in S : y <= x

ProcessBulkResultsKeepNone(cs) ==
    [d \in {cs[c].dev : c \in DOMAIN cs} |->
        cs[Max({c \in DOMAIN cs : cs[c].dev = d})].result]
\* the loop over the gathered (device_id, status) pairs: a None status is
\* skipped, a later pair for the same id overwrites an earlier one
ProcessBulkResults(cs) ==
    LET keep == {c \in DOMAIN cs : cs[c].result # Absent}
    IN  [d \in {cs[c].dev : c \in keep} |->
            cs[Max({c \in keep : cs[c].dev = d})].result]

\* the get_status_with_semaphore tasks of one invocation
TasksOf(via) ==
    [c \in {b \in DOMAIN calls : calls[b].via = via} |-> calls[c]]

\* asyncio.gather returns once every task is done; status_dict is built
GatherReturns ==
    /\ bulk_pc = "gathering"
    /\ \A c \in DOMAIN TasksOf("bulk") : calls[c].pc = "done"
    /\ bulk_result' = ProcessBulkResults(TasksOf("bulk"))
    /\ bulk_pc' = "done"
    /\ UNCHANGED <<monitors, cache, cache_ttl, max_concurrent, now,
                   fails_left, calls, bulk_ids, sem, retry_count>>
    /\ CoordRest

BulkNext ==
    \/ GetMultipleDeviceStatus
    \/ GetAllDeviceStatus
    \/ TaskAcquire
    \/ MonTestConnection
    \/ MonGetHealthMetrics
    \/ MonGetInterfaces
    \/ GatherReturns

BulkSpec == BulkInit /\ [][BulkNext]_vars

\* the event loop keeps running ready tasks and every monitor call returns
\* within its timeout
BulkFairSpec == BulkInit /\ [][BulkNext]_vars /\ WF_vars(BulkNext)

InFlight ==
    Cardinality({c \in DOMAIN calls :
                    calls[c].via = "bulk" /\ calls[c].pc \in Probing})

AllServed ==
    \A c \in DOMAIN calls :
        calls[c].dev \in monitors
           => /\ Returned(c)
              /\ calls[c].result # Absent
              /\ calls[c].hit \/ calls[c].mon_calls # <<>>

(* C3: during one get_multiple_device_status / get_all_device_status over
   N devices the number of monitor probes in flight never exceeds
   max_concurrent, also for N > max_concurrent; the other requests wait for
   the semaphore, and every requested device is eventually probed or served
   from the cache. *)
C3_ConcurrencyBound ==
    /\ [](/\ InFlight <= max_concurrent
          /\ bulk_pc = "gathering"
                => /\ sem["bulk"] >= 0
                   /\ sem["bulk"] + InFlight = max_concurrent)
    /\ (bulk_pc = "gathering") ~> (bulk_pc = "done" /\ AllServed)

C3_Witness ==
    /\ Len(bulk_ids) > max_concurrent
    /\ InFlight = max_concurrent
    /\ \E c \in DOMAIN calls : calls[c].pc = "waiting" /\ calls[c].dev \in monitors

RequestedIds == {bulk_ids[i] : i \in 1..Len(bulk_ids)}

(***************************************************************************)
(* DeviceMonitoringService: concurrent invocations                         *)
(***************************************************************************)
ConcurrentInit ==
    /\ Constructed(InitialConfig)
    /\ cache = <<>>
    /\ cache_ttl = MaxTtl
    /\ max_concurrent \in 1..MaxConcurrent
    /\ now = 0
    /\ fails_left = [d \in Devices |-> 0]
    /\ calls = <<>>
    /\ bulk_pc = "idle"
    /\ bulk_ids = <<>>
    /\ sem = <<>>
    /\ bulk_result = <<>>
    /\ retry_count = DefaultRetryCount
    /\ RetryAtRest
    /\ ScanIdle
    /\ AuxIdle

\* get_all_device_status is called again while an earlier invocation has
\* not returned: it makes its own asyncio.Semaphore(self.max_concurrent)
\* and its own tasks
SecondGetAllDeviceStatus ==
    \E ids \in IdSeqs :
        /\ Len(ids) = Cardinality(monitors)
        /\ {ids[i] : i \in 1..Len(ids)} = monitors
        /\ bulk_pc = "gathering"
        /\ bulk2_pc = "idle"
        /\ sem' = ("bulk2" :> max_concurrent) @@ sem
        /\ calls' = calls \o [c \in 1..Len(ids) |->
                         [IdleCall EXCEPT !.op = "status", !.dev = ids[c],
                                          !.via = "bulk2", !.pc = "waiting"]]
        /\ bulk2_pc' = "gathering"
        /\ UNCHANGED <<monitors, cache, cache_ttl, max_concurrent, now,
                       fails_left, bulk_pc, bulk_ids, bulk_result,
                       bulk2_result, retry_count, config_file, dm_devices,
                       mon_obj, reloads>>
        /\ OutsideCoord

\* asyncio.gather of the second invocation returns
SecondGatherReturns ==
    /\ bulk2_pc = "gathering"
    /\ \A c \in DOMAIN TasksOf("bulk2") : calls[c].pc = "done"
    /\ bulk2_result' = ProcessBulkResults(TasksOf("bulk2"))
    /\ bulk2_pc' = "done"
    /\ UNCHANGED <<monitors, cache, cache_ttl, max_concurrent, now,
                   fails_left, calls, bulk_pc, bulk_ids, sem, bulk_result,
                   retry_count, config_file, dm_devices, mon_obj, reloads>>
    /\ OutsideCoord

\* get_device_status is called on its own while an invocation is gathering;
\* it takes no semaphore
SingleGetDeviceStatus ==
    \E d \in AllIds :
        /\ bulk_pc = "gathering"
        /\ \A c \in DOMAIN calls : calls[c].via # "single"
        /\ calls' = Append(calls, BeginStatus(d, "single"))
        /\ cache' = StoreBegun(cache, BeginStatus(d, "single"),
                               Len(calls) + 1)
        /\ UNCHANGED <<monitors, cache_ttl, max_concurrent, now,
                       fails_left, bulk_pc, bulk_ids, sem, bulk_result,
                       retry_count>>
        /\ CoordRest

ConcurrentNext ==
    \/ GetAllDeviceStatus
    \/ SecondGetAllDeviceStatus
    \/ SingleGetDeviceStatus
    \/ TaskAcquire
    \/ MonTestConnection
    \/ MonGetHealthMetrics
    \/ MonGetInterfaces
    \/ GatherReturns
    \/ SecondGatherReturns

ConcurrentSpec == ConcurrentInit /\ [][ConcurrentNext]_vars

\* the monitor probes in flight, whoever started them
TotalInFlight == Cardinality({c \in DOMAIN calls : calls[c].pc \in Probing})

\* the probes in flight of one invocation
InFlightOf(via) ==
    Cardinality({c \in DOMAIN calls :
                    calls[c].via = via /\ calls[c].pc \in Probing})

(* C26: the concurrency limit is global: while two or more
   get_multiple_device_status / get_all_device_status invocations run
   together with single get_device_status calls, the number of monitor
   probes in flight over all of them never exceeds max_concurrent. *)
C26_GlobalLimit ==
    (bulk_pc = "gathering" /\ bulk2_pc = "gathering")
       => TotalInFlight <= max_concurrent

\* what the code does bound: the probes of each invocation on its own
PerInvocationLimit ==
    /\ InFlightOf("bulk") <= max_concurrent
    /\ InFlightOf("bulk2") <= max_concurrent

\* two invocations alone, no single call, already exceed the limit
TwoInvocationsLimit ==
    (\A c \in DOMAIN calls : calls[c].via # "single")
       => TotalInFlight <= max_concurrent

(* C10: get_multiple_device_status(ids) returns a map whose key set is
   exactly the requested ids that are known devices; every task of a known
   device returns a DeviceStatus of that device, whatever happens to the
   other ids; a status is unreachable only if that device's own probe
   failed (or the cache held such a status); and each entry is what that
   id's own get_device_status returned. *)
C10_BulkIsolation ==
    bulk_pc = "done"
    => /\ DOMAIN bulk_result = RequestedIds \cap monitors
       /\ \A c \in DOMAIN calls :
             /\ Returned(c)
             /\ calls[c].dev \notin monitors => calls[c].result = Absent
             /\ calls[c].dev \in monitors
                   => /\ calls[c].result # Absent
                      /\ calls[c].result.cls = "DeviceStatus"
                      /\ calls[c].result.device_id = calls[c].dev
                      /\ (~calls[c].result.reachable /\ ~calls[c].hit)
                            => calls[c].fails0 > 0
                      /\ calls[c].hit
                            => \E b \in DOMAIN calls :
                                  /\ calls[b].dev = calls[c].dev
                                  /\ ~calls[b].hit
                                  /\ calls[c].result =
                                       StatusFromDict(AsDictStatus(calls[b].result))
       /\ \A d \in DOMAIN bulk_result :
             \E c \in DOMAIN calls :
                 calls[c].dev = d /\ bulk_result[d] = calls[c].result

C10_Witness ==
    /\ bulk_pc = "done"
    /\ RequestedIds \cap UnknownIds # {}
    /\ \E d1 \in DOMAIN bulk_result, d2 \in DOMAIN bulk_result :
          ~bulk_result[d1].reachable /\ bulk_result[d2].reachable

(***************************************************************************)
(* AdvancedDiscoveryService.delete_scan_result                             *)
(***************************************************************************)
\* an id no job and no file ever had
UnknownScanIds == {"u1"}

\* AdvancedDiscoveryService.__init__ as in ScanInit, with one
\* start_discovery_scan call to come
DeleteInit ==
    /\ active_scans = EmptyTable
    /\ \/ disk = EmptyTable
       \/ \E st \in {"running", "completed", "failed"} :
             disk = [id \in PreIds |-> PreRecord(id, st)]
    /\ tasks = [id \in ScanIds |-> "none"]
    /\ task_save = [id \in ScanIds |-> FALSE]
    /\ scan_clock = 1
    /\ created = {}
    /\ restarts = 0
    /\ persisted_at_restart = DOMAIN disk
    /\ nmap_outcome = [id \in ScanIds |-> "none"]
    /\ alive_count = [id \in ScanIds |-> 0]
    /\ sweep_ran = [id \in ScanIds |-> FALSE]
    /\ scan_budget = 1
    /\ detached = <<>>
    /\ deleted = <<>>
    /\ AuxIdle
    /\ RetryIdle
    /\ CoordIdle

\* ids a client can name: those handed out, those of files, unknown ones
DeletableIds == created \cup PreIds \cup UnknownScanIds

\* the _execute_scan task of id has not reached its last write yet
TaskRunning(id) == id \in ScanIds /\ tasks[id] \in {"scanning", "port_scan"}

\* how delete_scan_result ends: True after unlink, False without a file,
\* False from the except block when unlink raised
DeleteOutcome(id, unlinked) ==
    IF id \notin DOMAIN disk THEN "no file"
    ELSE IF unlinked THEN "unlinked"
    ELSE "error"

\* delete_scan_result(scan_id): the id leaves active_scans, where a task
\* still at work keeps its own reference to the object; the file is
\* unlinked when it exists; an error of unlink is caught and answered False
DeleteScanResult ==
    \E id \in DeletableIds \ DOMAIN deleted, unlinked \in BOOLEAN :
        /\ active_scans' = IF id \in DOMAIN active_scans
                           THEN RemoveKey(active_scans, id)
                           ELSE active_scans
        /\ detached' = IF id \in DOMAIN active_scans /\ TaskRunning(id)
                       THEN (id :> active_scans[id]) @@ detached
                       ELSE detached
        /\ disk' = IF id \in DOMAIN disk /\ unlinked
                   THEN RemoveKey(disk, id)
                   ELSE disk
        /\ deleted' = (id :> DeleteOutcome(id, unlinked)) @@ deleted
        /\ UNCHANGED <<tasks, task_save, scan_clock, created, restarts,
                       persisted_at_restart, scanGhost, scan_budget>>
        /\ ScanRest

DeleteNext ==
    \/ ScanNext
    \/ DeleteScanResult

DeleteSpec == DeleteInit /\ [][DeleteNext]_vars

\* get_scan_status and get_scan_history no longer know the id
Forgotten(id) ==
    /\ GetScanStatus(id) = Absent
    /\ \A limit \in 1..MaxLimit : id \notin HistoryIds(GetScanHistory(limit))

\* a step that deletes an id without an active or a persisted record
DeletesUnknown(id) ==
    /\ id \notin DOMAIN deleted
    /\ id \in DOMAIN deleted'
    /\ id \notin DOMAIN active_scans
    /\ id \notin DOMAIN disk

DeleteUnknownStep ==
    \A id \in DeletableIds :
        DeletesUnknown(id) => active_scans' = active_scans /\ disk' = disk

DeleteUnknownIsNoOp == [][DeleteUnknownStep]_vars

\* a deleted id stays forgotten when the delete met no error
CleanDeleteStaysForgotten ==
    \A id \in DOMAIN deleted : deleted[id] # "error" => Forgotten(id)

(* C30: once delete_scan_result(scan_id) has returned, get_scan_status of
   the id is absent and get_scan_history omits it in every later state, also
   when the task of the job was still running at the delete and saves its
   result afterwards; and deleting an id without an active or a persisted
   record changes no active entry and no persisted record. *)
C30_DeleteIsFinal ==
    /\ [](\A id \in DOMAIN deleted : Forgotten(id))
    /\ DeleteUnknownIsNoOp

====
